---------------------------- MODULE Spec2Model ----------------------------
(***************************************************************************)
(* Normalization and entity resolution of property listings:               *)
(*   processors/data_normalizer.py    (DataNormalizer)                     *)
(*   processors/duplicate_handler.py  (DuplicateHandler)                   *)
(* as driven by app/main.py (collect_and_process_data) and demo_script.py, *)
(* and the QuotaManager of utils/quota_manager.py that the collectors ask. *)
(*                                                                         *)
(* Representation.                                                         *)
(*  - A Python str is the sequence of its characters, each a one-character *)
(*    string; '' is << >>.                                                 *)
(*  - A cell of a DataFrame (or a value of a raw dict) is a tagged record: *)
(*    NaN (a missing cell), NoneV (Python None), Str(s), Num(n).           *)
(*  - Similarities, confidences and scores are fixed-point numbers in      *)
(*    units of 1/10000 (1.0 is 10000), rounded down.                       *)
(*  - Coordinates are in units of 1/100000 degree, distances in metres.    *)
(*  - A DataFrame is [cols, rows]: the set of its column labels and the    *)
(*    sequence of its rows; a row maps every column to a cell and "index"  *)
(*    to its index label (a DataFrame built from a list has the labels     *)
(*    0, 1, ..., and filtering keeps the labels of the rows it keeps).     *)
(***************************************************************************)
EXTENDS Integers, Sequences, FiniteSets, TLC

VARIABLES
  properties,   \* the raw batch handed to the engine: a sequence of dicts
  df,           \* the DataFrame the pipeline is working on
  pc,           \* how far the pipeline has got
  raised,       \* whether find_duplicates caught an exception (line 46)
  given,        \* the DataFrame as it was handed to remove_duplicates
  normalized,   \* whether that DataFrame came from normalize_properties_batch
  renorm,       \* normalize_properties_batch applied to its own output
  cleaned_df,   \* what remove_duplicates returned
  calls,        \* the locals of the invocations that run side by side on the
                \* one DataNormalizer and the one DuplicateHandler of main.py
  quotas,       \* quota_manager.quotas: for each api its used, reset_date, limit
  month,        \* datetime.now(), in months
  requests      \* the get_properties calls in flight: how far each has got

vars ==
  <<properties, df, pc, raised, given, normalized, renorm, cleaned_df, calls,
    quotas, month, requests>>

\* what the collectors and the quota manager write
quota_vars == <<quotas, month, requests>>

---------------------------------------------------------------------------
(* Cells *)

NaN == [t |-> "nan"]

NoneV == [t |-> "none"]

Str(s) == [t |-> "str", s |-> s]

Num(n) == [t |-> "num", n |-> n]

\* pd.isna / pd.notna on a scalar
isna(v) == v.t \in {"nan", "none"}

notna(v) == ~isna(v)

IsStr(v) == v.t = "str"

IsNum(v) == v.t = "num"

\* v == '' (false for a cell that is no str)
IsEmptyStr(v) == IsStr(v) /\ v.s = << >>

---------------------------------------------------------------------------
(* Python str operations, on sequences of characters *)

LowerAlpha ==
  <<"a","b","c","d","e","f","g","h","i","j","k","l","m",
    "n","o","p","q","r","s","t","u","v","w","x","y","z">>

UpperAlpha ==
  <<"A","B","C","D","E","F","G","H","I","J","K","L","M",
    "N","O","P","Q","R","S","T","U","V","W","X","Y","Z">>

DigitChars == {"0","1","2","3","4","5","6","7","8","9"}

LowerChars == {LowerAlpha[k] : k \in DOMAIN LowerAlpha}

UpperChars == {UpperAlpha[k] : k \in DOMAIN UpperAlpha}

IsLowerChar(c) == c \in LowerChars

IsUpperChar(c) == c \in UpperChars

IsCased(c) == IsLowerChar(c) \/ IsUpperChar(c)

\* \s of the re module
IsSpace(c) == c = " "

\* \w of the re module
IsWordChar(c) == IsCased(c) \/ c \in DigitChars \/ c = "_"

\* the lower-case letter of each upper-case letter, and the reverse
LowerOf == [c \in UpperChars |-> LowerAlpha[CHOOSE k \in DOMAIN UpperAlpha : UpperAlpha[k] = c]]

UpperOf == [c \in LowerChars |-> UpperAlpha[CHOOSE k \in DOMAIN LowerAlpha : LowerAlpha[k] = c]]

ToLower(c) == IF IsUpperChar(c) THEN LowerOf[c] ELSE c

ToUpper(c) == IF IsLowerChar(c) THEN UpperOf[c] ELSE c

\* str.lower
lower(s) == [k \in 1..Len(s) |-> ToLower(s[k])]

\* str.upper
upper(s) == [k \in 1..Len(s) |-> ToUpper(s[k])]

\* str.title: a cased character is upper-cased when the one before it is not
\* cased, and lower-cased otherwise
title(s) ==
  [k \in 1..Len(s) |->
     IF k > 1 /\ IsCased(s[k - 1]) THEN ToLower(s[k]) ELSE ToUpper(s[k])]

\* str.lstrip, str.rstrip and str.strip
RECURSIVE lstrip(_)
lstrip(s) == IF s # << >> /\ IsSpace(Head(s)) THEN lstrip(Tail(s)) ELSE s

RECURSIVE rstrip(_)
rstrip(s) ==
  IF s # << >> /\ IsSpace(s[Len(s)]) THEN rstrip(SubSeq(s, 1, Len(s) - 1)) ELSE s

strip(s) == rstrip(lstrip(s))

\* the characters of s at the positions of `keep`, in order
RECURSIVE Pick(_, _, _)
Pick(s, keep, k) ==
  IF k > Len(s) THEN << >>
  ELSE IF k \in keep THEN <<s[k]>> \o Pick(s, keep, k + 1)
       ELSE Pick(s, keep, k + 1)

\* re.sub(r'\s+', ' ', s): each run of whitespace becomes one blank
CollapseSpaces(s) ==
  LET keep == {k \in 1..Len(s) : ~(IsSpace(s[k]) /\ k > 1 /\ IsSpace(s[k - 1]))}
  IN Pick(s, keep, 1)

\* re.sub(r'[^\w\s]', '', s)
RemovePunctuation(s) ==
  Pick(s, {k \in 1..Len(s) : IsWordChar(s[k]) \/ IsSpace(s[k])}, 1)

\* sub occurs in s at position k
OccursAt(sub, s, k) ==
  /\ k >= 1
  /\ k + Len(sub) - 1 <= Len(s)
  /\ \A m \in 1..Len(sub) : s[k + m - 1] = sub[m]

\* `sub in s`
Contains(sub, s) == \E k \in 1..(Len(s) + 1) : OccursAt(sub, s, k)

\* \bword\b matches at position k of s
WordAt(word, s, k) ==
  /\ OccursAt(word, s, k)
  /\ (k = 1 \/ ~IsWordChar(s[k - 1]))
  /\ (k + Len(word) > Len(s) \/ ~IsWordChar(s[k + Len(word)]))

\* re.sub(r'\bword\b', repl, s), scanning s from position k
RECURSIVE SubWord(_, _, _, _)
SubWord(word, repl, s, k) ==
  IF k > Len(s) THEN << >>
  ELSE IF WordAt(word, s, k)
       THEN repl \o SubWord(word, repl, s, k + Len(word))
       ELSE <<s[k]>> \o SubWord(word, repl, s, k + 1)

---------------------------------------------------------------------------
(* The texts of the model's batches *)

MarketSt == <<"1","2","3"," ","M","a","r","k","e","t"," ","S","t">>

MarketStreet == <<"1","2","3"," ","M","a","r","k","e","t"," ","S","t","r","e","e","t">>

MarketSt125 == <<"1","2","5"," ","M","a","r","k","e","t"," ","S","t">>

OakAve == <<"9"," ","O","a","k"," ","A","v","e">>

\* "123 Market St" as a careless provider writes it
MarketStLower == <<"1","2","3"," ","m","a","r","k","e","t"," ","s","t">>

MarketStSloppy == <<"1","2","3"," "," ","m","a","r","k","e","t"," ","s","t">>

SanFrancisco == <<"S","a","n"," ","F","r","a","n","c","i","s","c","o">>

CA == <<"C","A">>

California == <<"C","a","l","i","f","o","r","n","i","a">>

Ontario == <<"O","n","t","a","r","i","o">>

\* the address, city and state cells of the raw batches (NaN is the cell of a
\* dict that lacks the key)
RawAddresses ==
  {Str(MarketSt), Str(MarketStreet), Str(MarketSt125), Str(OakAve), Str(MarketStLower),
   Str(MarketStSloppy), Str(<< >>), NoneV, NaN}

RawCities == {Str(SanFrancisco), Str(<< >>), NoneV, NaN}

RawStates == {Str(CA), Str(California), Str(Ontario), Str(<< >>), NoneV, NaN}

---------------------------------------------------------------------------
(* DataNormalizer *)

\* self.state_abbreviations, in the order of the dict
state_abbreviations ==
  <<
    << <<"a","l","a","b","a","m","a">>, <<"A","L">> >>, << <<"a","l","a","s","k","a">>, <<"A","K">> >>,
    << <<"a","r","i","z","o","n","a">>, <<"A","Z">> >>, << <<"a","r","k","a","n","s","a","s">>, <<"A","R">> >>,
    << <<"c","a","l","i","f","o","r","n","i","a">>, <<"C","A">> >>, << <<"c","o","l","o","r","a","d","o">>, <<"C","O">> >>,
    << <<"c","o","n","n","e","c","t","i","c","u","t">>, <<"C","T">> >>, << <<"d","e","l","a","w","a","r","e">>, <<"D","E">> >>,
    << <<"f","l","o","r","i","d","a">>, <<"F","L">> >>, << <<"g","e","o","r","g","i","a">>, <<"G","A">> >>,
    << <<"h","a","w","a","i","i">>, <<"H","I">> >>, << <<"i","d","a","h","o">>, <<"I","D">> >>,
    << <<"i","l","l","i","n","o","i","s">>, <<"I","L">> >>, << <<"i","n","d","i","a","n","a">>, <<"I","N">> >>,
    << <<"i","o","w","a">>, <<"I","A">> >>, << <<"k","a","n","s","a","s">>, <<"K","S">> >>,
    << <<"k","e","n","t","u","c","k","y">>, <<"K","Y">> >>, << <<"l","o","u","i","s","i","a","n","a">>, <<"L","A">> >>,
    << <<"m","a","i","n","e">>, <<"M","E">> >>, << <<"m","a","r","y","l","a","n","d">>, <<"M","D">> >>,
    << <<"m","a","s","s","a","c","h","u","s","e","t","t","s">>, <<"M","A">> >>, << <<"m","i","c","h","i","g","a","n">>, <<"M","I">> >>,
    << <<"m","i","n","n","e","s","o","t","a">>, <<"M","N">> >>, << <<"m","i","s","s","i","s","s","i","p","p","i">>, <<"M","S">> >>,
    << <<"m","i","s","s","o","u","r","i">>, <<"M","O">> >>, << <<"m","o","n","t","a","n","a">>, <<"M","T">> >>,
    << <<"n","e","b","r","a","s","k","a">>, <<"N","E">> >>, << <<"n","e","v","a","d","a">>, <<"N","V">> >>,
    << <<"n","e","w"," ","h","a","m","p","s","h","i","r","e">>, <<"N","H">> >>, << <<"n","e","w"," ","j","e","r","s","e","y">>, <<"N","J">> >>,
    << <<"n","e","w"," ","m","e","x","i","c","o">>, <<"N","M">> >>, << <<"n","e","w"," ","y","o","r","k">>, <<"N","Y">> >>,
    << <<"n","o","r","t","h"," ","c","a","r","o","l","i","n","a">>, <<"N","C">> >>, << <<"n","o","r","t","h"," ","d","a","k","o","t","a">>, <<"N","D">> >>,
    << <<"o","h","i","o">>, <<"O","H">> >>, << <<"o","k","l","a","h","o","m","a">>, <<"O","K">> >>,
    << <<"o","r","e","g","o","n">>, <<"O","R">> >>, << <<"p","e","n","n","s","y","l","v","a","n","i","a">>, <<"P","A">> >>,
    << <<"r","h","o","d","e"," ","i","s","l","a","n","d">>, <<"R","I">> >>, << <<"s","o","u","t","h"," ","c","a","r","o","l","i","n","a">>, <<"S","C">> >>,
    << <<"s","o","u","t","h"," ","d","a","k","o","t","a">>, <<"S","D">> >>, << <<"t","e","n","n","e","s","s","e","e">>, <<"T","N">> >>,
    << <<"t","e","x","a","s">>, <<"T","X">> >>, << <<"u","t","a","h">>, <<"U","T">> >>,
    << <<"v","e","r","m","o","n","t">>, <<"V","T">> >>, << <<"v","i","r","g","i","n","i","a">>, <<"V","A">> >>,
    << <<"w","a","s","h","i","n","g","t","o","n">>, <<"W","A">> >>, << <<"w","e","s","t"," ","v","i","r","g","i","n","i","a">>, <<"W","V">> >>,
    << <<"w","i","s","c","o","n","s","i","n">>, <<"W","I">> >>, << <<"w","y","o","m","i","n","g">>, <<"W","Y">> >>
  >>

\* the values of the codes of self.state_abbreviations
StateCodes == {state_abbreviations[k][2] : k \in DOMAIN state_abbreviations}

DigitSeq == <<"0","1","2","3","4","5","6","7","8","9">>

DigitValue(c) == (CHOOSE k \in DOMAIN DigitSeq : DigitSeq[k] = c) - 1

\* str(n) of a non-negative int
RECURSIVE IntToStr(_)
IntToStr(n) ==
  IF n < 10 THEN <<DigitSeq[n + 1]>>
  ELSE IntToStr(n \div 10) \o <<DigitSeq[(n % 10) + 1]>>

\* Series.astype(str) on one cell: str(None) is 'None', str(nan) is 'nan'
astype_str(v) ==
  CASE v.t = "str"  -> v.s
    [] v.t = "nan"  -> <<"n","a","n">>
    [] v.t = "none" -> <<"N","o","n","e">>
    [] v.t = "num"  -> IF v.n >= 0 THEN IntToStr(v.n) ELSE <<"-">> \o IntToStr(-v.n)

\* the value of a string of digits
RECURSIVE DigitsValue(_)
DigitsValue(s) ==
  IF s = << >> THEN 0
  ELSE 10 * DigitsValue(SubSeq(s, 1, Len(s) - 1)) + DigitValue(s[Len(s)])

\* float(s) / pd.to_numeric(s, errors='coerce') of a str, for the decimal
\* integers the model's batches carry; any other text does not parse (NaN)
ParseNumber(s) ==
  LET t    == strip(s)
      neg  == t # << >> /\ t[1] = "-"
      body == IF neg THEN SubSeq(t, 2, Len(t)) ELSE t
  IN IF body # << >> /\ \A k \in DOMAIN body : body[k] \in DigitChars
     THEN Num(IF neg THEN -DigitsValue(body) ELSE DigitsValue(body))
     ELSE NaN

\* df[col] = df[col].apply(F) / a vectorised column operation, when df has col
ApplyCol(d, col, F(_)) ==
  IF col \in d.cols
  THEN [d EXCEPT !.rows =
          [k \in DOMAIN d.rows |-> [d.rows[k] EXCEPT ![col] = F(d.rows[k][col])]]]
  ELSE d

\* pd.DataFrame(): no columns, no rows
EmptyDataFrame == [cols |-> {}, rows |-> << >>]

\* pd.DataFrame(properties): the columns are the keys of all the dicts, a key
\* that a dict lacks is NaN in its row, and the index is 0..n-1
DataFrame(props) ==
  IF props = << >> THEN EmptyDataFrame
  ELSE LET cols == UNION {DOMAIN props[k] : k \in DOMAIN props}
       IN [cols |-> cols,
           rows |-> [k \in DOMAIN props |->
                      [c \in cols \cup {"index"} |->
                         IF c = "index" THEN k - 1
                         ELSE IF c \in DOMAIN props[k] THEN props[k][c] ELSE NaN]]]

\* df.to_dict('records'): one dict per row, every column a key
to_dict_records(d) ==
  [k \in DOMAIN d.rows |-> [c \in d.cols |-> d.rows[k][c]]]

\* DataNormalizer._normalize_state
_normalize_state(state) ==
  IF isna(state) \/ IsEmptyStr(state) THEN NoneV
  ELSE LET raw       == astype_str(state)
           state_str == lower(strip(raw))
           named     == {k \in DOMAIN state_abbreviations :
                           state_abbreviations[k][1] = state_str}
           partial   == {k \in DOMAIN state_abbreviations :
                           \/ Contains(state_str, state_abbreviations[k][1])
                           \/ Contains(state_abbreviations[k][1], state_str)}
       IN IF Len(state_str) = 2 /\ upper(state_str) \in StateCodes
          THEN Str(upper(state_str))
          ELSE IF named # {}
          THEN Str(state_abbreviations[CHOOSE k \in named : TRUE][2])
          ELSE IF partial # {}
          THEN Str(state_abbreviations[CHOOSE k \in partial : \A m \in partial : k <= m][2])
          ELSE IF IsNum(state) /\ state.n = 0 THEN NoneV
          ELSE Str(SubSeq(upper(strip(raw)), 1, IF Len(strip(raw)) < 2 THEN Len(strip(raw)) ELSE 2))

\* _normalize_state on the states of the model's batches and on what it makes
\* of them, computed once
NormalizedStates ==
  [state \in RawStates \cup {_normalize_state(x) : x \in RawStates}
                       \cup {_normalize_state(_normalize_state(x)) : x \in RawStates} |->
     _normalize_state(state)]

\* _normalize_state(state), looked up in NormalizedStates for the states of the
\* model's batches
NormalizedState(state) ==
  IF state \in DOMAIN NormalizedStates THEN NormalizedStates[state]
  ELSE _normalize_state(state)

\* re.search(r'\b(\d{5})\b', s): the positions where a standalone run of five
\* digits starts
ZipMatches(s) ==
  {k \in 1..Len(s) :
     /\ k + 4 <= Len(s)
     /\ \A m \in 0..4 : s[k + m] \in DigitChars
     /\ (k = 1 \/ ~IsWordChar(s[k - 1]))
     /\ (k + 5 > Len(s) \/ ~IsWordChar(s[k + 5]))}

\* DataNormalizer._normalize_zip_code
_normalize_zip_code(zip_code) ==
  IF isna(zip_code) \/ IsEmptyStr(zip_code) THEN NoneV
  ELSE LET zip_str == strip(astype_str(zip_code))
           found   == ZipMatches(zip_str)
       IN IF found # {}
          THEN LET k == CHOOSE k \in found : \A m \in found : k <= m
               IN Str(SubSeq(zip_str, k, k + 4))
          ELSE NoneV

\* DataNormalizer._normalize_addresses
NormalizeAddressCell(v) == Str(title(CollapseSpaces(strip(astype_str(v)))))

NormalizeCityCell(v) == Str(title(strip(astype_str(v))))

\* the two on the cells of the model's batches and on what they make of them,
\* computed once
NormalizedAddresses ==
  [v \in RawAddresses \cup {NormalizeAddressCell(x) : x \in RawAddresses} |->
     NormalizeAddressCell(v)]

NormalizedCities ==
  [v \in RawCities \cup {NormalizeCityCell(x) : x \in RawCities} |-> NormalizeCityCell(v)]

NormalizedAddress(v) ==
  IF v \in DOMAIN NormalizedAddresses THEN NormalizedAddresses[v] ELSE NormalizeAddressCell(v)

NormalizedCity(v) ==
  IF v \in DOMAIN NormalizedCities THEN NormalizedCities[v] ELSE NormalizeCityCell(v)

_normalize_addresses(d) ==
  ApplyCol(
    ApplyCol(
      ApplyCol(
        ApplyCol(d, "address", NormalizedAddress),
        "city", NormalizedCity),
      "state", NormalizedState),
    "zip_code", _normalize_zip_code)

\* type_mapping of _normalize_property_types
type_mapping ==
  <<
    << <<"s","i","n","g","l","e"," ","f","a","m","i","l","y">>,
       <<"h","o","u","s","e">> >>,
    << <<"s","i","n","g","l","e","-","f","a","m","i","l","y">>,
       <<"h","o","u","s","e">> >>,
    << <<"s","f","h">>,
       <<"h","o","u","s","e">> >>,
    << <<"d","e","t","a","c","h","e","d">>,
       <<"h","o","u","s","e">> >>,
    << <<"m","u","l","t","i"," ","f","a","m","i","l","y">>,
       <<"m","u","l","t","i","f","a","m","i","l","y">> >>,
    << <<"m","u","l","t","i","-","f","a","m","i","l","y">>,
       <<"m","u","l","t","i","f","a","m","i","l","y">> >>,
    << <<"d","u","p","l","e","x">>,
       <<"m","u","l","t","i","f","a","m","i","l","y">> >>,
    << <<"t","r","i","p","l","e","x">>,
       <<"m","u","l","t","i","f","a","m","i","l","y">> >>,
    << <<"f","o","u","r","p","l","e","x">>,
       <<"m","u","l","t","i","f","a","m","i","l","y">> >>,
    << <<"c","o","n","d","o","m","i","n","i","u","m">>,
       <<"c","o","n","d","o">> >>,
    << <<"c","o","n","d","o">>,
       <<"c","o","n","d","o">> >>,
    << <<"t","o","w","n","h","o","u","s","e">>,
       <<"t","o","w","n","h","o","m","e">> >>,
    << <<"t","o","w","n","h","o","m","e">>,
       <<"t","o","w","n","h","o","m","e">> >>,
    << <<"a","p","a","r","t","m","e","n","t">>,
       <<"a","p","a","r","t","m","e","n","t">> >>,
    << <<"a","p","t">>,
       <<"a","p","a","r","t","m","e","n","t">> >>,
    << <<"m","o","b","i","l","e"," ","h","o","m","e">>,
       <<"m","o","b","i","l","e">> >>,
    << <<"m","a","n","u","f","a","c","t","u","r","e","d">>,
       <<"m","o","b","i","l","e">> >>,
    << <<"l","a","n","d">>,
       <<"l","o","t">> >>,
    << <<"v","a","c","a","n","t"," ","l","a","n","d">>,
       <<"l","o","t">> >>
  >>

NormalizePropertyTypeCell(v) ==
  LET s    == strip(lower(astype_str(v)))
      hits == {k \in DOMAIN type_mapping : type_mapping[k][1] = s}
  IN IF hits # {} THEN Str(type_mapping[CHOOSE k \in hits : TRUE][2]) ELSE Str(s)

\* DataNormalizer._normalize_property_types
_normalize_property_types(d) == ApplyCol(d, "property_type", NormalizePropertyTypeCell)

\* DataNormalizer._clean_price; the column of results holds floats, so a None
\* result is a NaN cell
_clean_price(price) ==
  IF isna(price) \/ IsEmptyStr(price) THEN NaN
  ELSE IF IsNum(price) THEN (IF price.n > 0 THEN price ELSE NaN)
  ELSE LET price_str   == strip(Pick(price.s, {k \in DOMAIN price.s : price.s[k] \notin {"$", ","}}, 1))
           price_float == ParseNumber(price_str)
       IN IF IsNum(price_float) /\ price_float.n > 0 THEN price_float ELSE NaN

\* DataNormalizer._normalize_prices
_normalize_prices(d) ==
  ApplyCol(ApplyCol(ApplyCol(ApplyCol(d, "current_price", _clean_price),
                             "price", _clean_price),
                    "rent", _clean_price),
           "list_price", _clean_price)

\* pd.to_numeric(cell, errors='coerce')
to_numeric(v) ==
  CASE v.t = "num" -> v
    [] v.t = "str" -> ParseNumber(v.s)
    [] OTHER       -> NaN

\* Series.where(lo <= s <= hi) after pd.to_numeric, then NaN to None
Bounded(v, lo, hi) ==
  LET n == to_numeric(v)
  IN IF IsNum(n) /\ n.n >= lo /\ n.n <= hi THEN n ELSE NoneV

NumericOrNone(v) == LET n == to_numeric(v) IN IF IsNum(n) THEN n ELSE NoneV

BedroomsCell(v) == Bounded(v, 0, 20)

BathroomsCell(v) == Bounded(v, 0, 20)

SquareFeetCell(v) == Bounded(v, 100, 50000)

YearBuiltCell(v) == Bounded(v, 1800, 2025)

\* DataNormalizer._normalize_numeric_fields
_normalize_numeric_fields(d) ==
  ApplyCol(ApplyCol(ApplyCol(ApplyCol(ApplyCol(d, "bedrooms", BedroomsCell),
                                      "bathrooms", BathroomsCell),
                             "square_feet", SquareFeetCell),
                    "lot_size", NumericOrNone),
           "year_built", YearBuiltCell)

LatitudeCell(v) ==
  LET n == to_numeric(v)
  IN IF IsNum(n) /\ n.n >= 2400000 /\ n.n <= 7100000 THEN n ELSE NaN

LongitudeCell(v) ==
  LET n == to_numeric(v)
  IN IF IsNum(n) /\ n.n >= -18000000 /\ n.n <= -6600000 THEN n ELSE NaN

\* DataNormalizer._normalize_coordinates
_normalize_coordinates(d) ==
  IF "latitude" \in d.cols /\ "longitude" \in d.cols
  THEN ApplyCol(ApplyCol(d, "latitude", LatitudeCell), "longitude", LongitudeCell)
  ELSE d

\* df.dropna(subset=[field]) and then df[df[field].astype(str).str.strip() != '']
DropMissing(d, field) ==
  IF field \in d.cols
  THEN [d EXCEPT !.rows =
          SelectSeq(d.rows, LAMBDA r : notna(r[field]) /\ strip(astype_str(r[field])) # << >>)]
  ELSE d

\* df.drop_duplicates(subset=['address', 'city', 'state'], keep='first')
RECURSIVE DropDuplicateRows(_, _)
DropDuplicateRows(rows, seen) ==
  IF rows = << >> THEN << >>
  ELSE LET r   == Head(rows)
           key == <<r["address"], r["city"], r["state"]>>
       IN IF key \in seen THEN DropDuplicateRows(Tail(rows), seen)
          ELSE <<r>> \o DropDuplicateRows(Tail(rows), seen \cup {key})

\* DataNormalizer._validate_data
_validate_data(d) ==
  LET d3 == DropMissing(DropMissing(DropMissing(d, "address"), "city"), "state")
  IN IF {"address", "city", "state"} \subseteq d3.cols
     THEN [d3 EXCEPT !.rows = DropDuplicateRows(d3.rows, {})]
     ELSE d3

\* DataNormalizer.normalize_properties_batch
normalize_properties_batch(props) ==
  IF props = << >> THEN EmptyDataFrame
  ELSE _validate_data(
         _normalize_coordinates(
           _normalize_numeric_fields(
             _normalize_prices(
               _normalize_property_types(
                 _normalize_addresses(DataFrame(props)))))))

---------------------------------------------------------------------------
(* DuplicateHandler *)

\* the outcome of a call that raises an exception instead of returning a number
RAISES == -1

\* self.address_threshold (0.85)
address_threshold == 8500

\* self.coordinate_threshold (0.1 km), in metres
coordinate_threshold == 100

\* row.get(field, default)
Get(row, field, default) == IF field \in DOMAIN row THEN row[field] ELSE default

\* `not v`: None, '' and 0 are falsy; NaN is a float other than 0, so it is truthy
Falsy(v) == v.t = "none" \/ IsEmptyStr(v) \/ (IsNum(v) /\ v.n = 0)

\* pd.notna(v) and v != ''
Populated(v) == notna(v) /\ ~IsEmptyStr(v)

\* difflib.SequenceMatcher.find_longest_match without junk: the length of the
\* block that starts at a[i] and b[j]
RECURSIVE CommonLen(_, _, _, _, _, _)
CommonLen(a, b, i, j, ahi, bhi) ==
  IF i <= ahi /\ j <= bhi /\ a[i] = b[j]
  THEN 1 + CommonLen(a, b, i + 1, j + 1, ahi, bhi)
  ELSE 0

\* the longest block of a[alo..ahi] and b[blo..bhi]; of the longest, the one
\* that starts earliest in a, and of those the one that starts earliest in b
find_longest_match(a, b, alo, ahi, blo, bhi) ==
  LET cand == {<<i, j, CommonLen(a, b, i, j, ahi, bhi)>> : i \in alo..ahi, j \in blo..bhi}
  IN CHOOSE c \in cand : \A d \in cand :
       \/ c[3] > d[3]
       \/ c[3] = d[3] /\ c[1] < d[1]
       \/ c[3] = d[3] /\ c[1] = d[1] /\ c[2] <= d[2]

\* the total size of SequenceMatcher.get_matching_blocks: the longest block,
\* then the same to its left and to its right
RECURSIVE MatchingSize(_, _, _, _, _, _)
MatchingSize(a, b, alo, ahi, blo, bhi) ==
  IF alo > ahi \/ blo > bhi THEN 0
  ELSE LET m == find_longest_match(a, b, alo, ahi, blo, bhi)
       IN IF m[3] = 0 THEN 0
          ELSE m[3] + MatchingSize(a, b, alo, m[1] - 1, blo, m[2] - 1)
                    + MatchingSize(a, b, m[1] + m[3], ahi, m[2] + m[3], bhi)

\* SequenceMatcher(None, a, b).ratio(): 2.0 * matches / (len(a) + len(b))
ratio(a, b) ==
  IF Len(a) + Len(b) = 0 THEN 10000
  ELSE (2 * MatchingSize(a, b, 1, Len(a), 1, Len(b)) * 10000) \div (Len(a) + Len(b))

\* replacements of _normalize_address_for_comparison, in the order of the dict
replacements ==
  <<
    << <<"s","t","r","e","e","t">>, <<"s","t">> >>,
    << <<"a","v","e","n","u","e">>, <<"a","v","e">> >>,
    << <<"b","o","u","l","e","v","a","r","d">>, <<"b","l","v","d">> >>,
    << <<"d","r","i","v","e">>, <<"d","r">> >>,
    << <<"r","o","a","d">>, <<"r","d">> >>,
    << <<"l","a","n","e">>, <<"l","n">> >>,
    << <<"c","o","u","r","t">>, <<"c","t">> >>,
    << <<"p","l","a","c","e">>, <<"p","l">> >>,
    << <<"a","p","a","r","t","m","e","n","t">>, <<"a","p","t">> >>,
    << <<"u","n","i","t">>, <<"a","p","t">> >>,
    << <<"n","o","r","t","h">>, <<"n">> >>,
    << <<"s","o","u","t","h">>, <<"s">> >>,
    << <<"e","a","s","t">>, <<"e">> >>,
    << <<"w","e","s","t">>, <<"w">> >>
  >>

\* for pattern, replacement in replacements.items(): re.sub(...), from the k-th on
RECURSIVE ReplaceAll(_, _)
ReplaceAll(s, k) ==
  IF k > Len(replacements) THEN s
  ELSE ReplaceAll(SubWord(replacements[k][1], replacements[k][2], s, 1), k + 1)

\* DuplicateHandler._normalize_address_for_comparison, of a non-empty str
_normalize_address_for_comparison(address) ==
  strip(CollapseSpaces(RemovePunctuation(ReplaceAll(strip(lower(address)), 1))))

\* the texts of the address and city cells the matching can meet: those of the
\* raw batches and those the normalizer makes of them
AddressTexts == {v.s : v \in {c \in DOMAIN NormalizedAddresses : IsStr(c)}}

CityTexts == {v.s : v \in {c \in DOMAIN NormalizedCities : IsStr(c)}}

\* _normalize_address_for_comparison on these addresses, computed once
ComparisonAddresses == [t \in AddressTexts |-> _normalize_address_for_comparison(t)]

ComparisonAddress(address) ==
  IF address \in DOMAIN ComparisonAddresses THEN ComparisonAddresses[address]
  ELSE _normalize_address_for_comparison(address)

\* what _calculate_string_similarity makes of a str before it compares
ComparisonString(str) == strip(lower(str))

\* ratio on the texts that are compared, computed once
ComparedTexts ==
  {ComparisonAddresses[t] : t \in AddressTexts} \cup {ComparisonString(t) : t \in CityTexts}

Ratios == [p \in ComparedTexts \X ComparedTexts |-> ratio(p[1], p[2])]

Ratio(a, b) == IF <<a, b>> \in DOMAIN Ratios THEN Ratios[<<a, b>>] ELSE ratio(a, b)

\* DuplicateHandler._calculate_address_similarity: a truthy cell that is no
\* str (NaN) has no .lower(), and the call raises AttributeError
_calculate_address_similarity(addr1, addr2) ==
  IF Falsy(addr1) \/ Falsy(addr2) THEN 0
  ELSE IF ~IsStr(addr1) \/ ~IsStr(addr2) THEN RAISES
  ELSE Ratio(ComparisonAddress(addr1.s), ComparisonAddress(addr2.s))

\* DuplicateHandler._calculate_string_similarity
_calculate_string_similarity(str1, str2) ==
  IF Falsy(str1) \/ Falsy(str2) THEN 0
  ELSE IF ~IsStr(str1) \/ ~IsStr(str2) THEN RAISES
  ELSE Ratio(ComparisonString(str1.s), ComparisonString(str2.s))

Abs(n) == IF n < 0 THEN -n ELSE n

Max(a, b) == IF a >= b THEN a ELSE b

Min(a, b) == IF a <= b THEN a ELSE b

\* the similarity _calculate_property_similarity appends for one numeric
\* field, << >> when it appends none, <<RAISES>> when the arithmetic raises
FieldSimilarity(field, val1, val2) ==
  IF ~(notna(val1) /\ notna(val2)) THEN << >>
  ELSE IF val1 = val2 THEN <<10000>>
  ELSE IF ~(IsNum(val1) /\ IsNum(val2)) THEN <<RAISES>>
  ELSE IF field = "square_feet"
       THEN IF Max(val1.n, val2.n) = 0 THEN <<RAISES>>
            ELSE <<Max(0, 10000 - (2 * Abs(val1.n - val2.n) * 10000) \div Max(val1.n, val2.n))>>
  ELSE IF field = "year_built"
       THEN <<Max(0, 10000 - Abs(val1.n - val2.n) * 1000)>>
  ELSE <<IF Abs(val1.n - val2.n) <= 1 THEN 5000 ELSE 0>>

\* the similarity appended for property_type
TypeSimilarity(type1, type2) ==
  IF Falsy(type1) \/ Falsy(type2) THEN << >>
  ELSE IF ~IsStr(type1) \/ ~IsStr(type2) THEN <<RAISES>>
  ELSE <<IF lower(type1.s) = lower(type2.s) THEN 10000 ELSE 0>>

RECURSIVE SumSeq(_)
SumSeq(s) == IF s = << >> THEN 0 ELSE Head(s) + SumSeq(Tail(s))

\* sum(similarities) / len(similarities), 0.0 for an empty list; RAISES when
\* one of the comparisons raised
Average(similarities) ==
  IF \E k \in DOMAIN similarities : similarities[k] = RAISES THEN RAISES
  ELSE IF similarities = << >> THEN 0
  ELSE SumSeq(similarities) \div Len(similarities)

\* DuplicateHandler._calculate_property_similarity
_calculate_property_similarity(prop1, prop2) ==
  Average(
    FieldSimilarity("bedrooms", Get(prop1, "bedrooms", NoneV), Get(prop2, "bedrooms", NoneV))
    \o FieldSimilarity("bathrooms", Get(prop1, "bathrooms", NoneV), Get(prop2, "bathrooms", NoneV))
    \o FieldSimilarity("square_feet", Get(prop1, "square_feet", NoneV), Get(prop2, "square_feet", NoneV))
    \o FieldSimilarity("year_built", Get(prop1, "year_built", NoneV), Get(prop2, "year_built", NoneV))
    \o TypeSimilarity(Get(prop1, "property_type", Str(<< >>)), Get(prop2, "property_type", Str(<< >>))))

\* the integer square root, by Newton's iteration from x
RECURSIVE ISqrtFrom(_, _)
ISqrtFrom(n, x) ==
  LET y == (x + n \div x) \div 2
  IN IF y >= x THEN x ELSE ISqrtFrom(n, y)

ISqrt(n) == IF n < 2 THEN n ELSE ISqrtFrom(n, n \div 2)

\* geodesic as it would be if it took every two points for the same place
SamePlaceDistance(coord1, coord2) == 0

\* geopy.distance.geodesic(coord1, coord2), in metres, rounded down.  A point
\* is <<latitude, longitude>> in 1/100000 degree.  geopy refuses a latitude
\* outside [-90, 90] with ValueError.  The distance is computed on the plane
\* tangent at 37.8 N, where 1/100000 degree is 1.11 m of latitude and 0.88 m
\* of longitude (the batches of the model lie there); beyond 30 km along one
\* axis the distance along that axis stands for the distance.
geodesic(coord1, coord2) ==
  IF ~(IsNum(coord1[1]) /\ IsNum(coord1[2]) /\ IsNum(coord2[1]) /\ IsNum(coord2[2]))
  THEN RAISES
  ELSE IF Abs(coord1[1].n) > 9000000 \/ Abs(coord2[1].n) > 9000000 THEN RAISES
  ELSE LET dy == (Abs(coord1[1].n - coord2[1].n) * 111) \div 100
           dx == (Abs(coord1[2].n - coord2[2].n) * 88) \div 100
       IN IF dx > 30000 \/ dy > 30000 THEN Max(dx, dy)
          ELSE ISqrt(dx * dx + dy * dy)

\* the elements of a finite set of integers, ascending
RECURSIVE Ascending(_)
Ascending(S) ==
  IF S = {} THEN << >>
  ELSE LET m == CHOOSE x \in S : \A y \in S : x <= y
       IN <<m>> \o Ascending(S \ {m})

MetadataColumns == {"duplicate_group", "is_duplicate", "duplicate_confidence"}

\* df.empty
Empty(d) == d.rows = << >> \/ d.cols = {}

\* find_duplicates, lines 29-31: the three columns of the matching
AddDuplicateColumns(d) ==
  [cols |-> d.cols \cup MetadataColumns,
   rows |-> [k \in DOMAIN d.rows |->
              [c \in DOMAIN d.rows[k] \cup MetadataColumns |->
                 CASE c = "duplicate_group"      -> NoneV
                   [] c = "is_duplicate"         -> FALSE
                   [] c = "duplicate_confidence" -> 0
                   [] OTHER                      -> d.rows[k][c]]]]

\* the group ids f"addr_{hash}", f"coord_{i}_{j}" and f"fuzzy_{i}_{j}"
GroupId(kind, i, j) == [t |-> "group", kind |-> kind, i |-> i, j |-> j]

\* the group ids a duplicate_group cell holds: none, or the one it was last
\* assigned
GroupsOf(cell) ==
  IF cell.t = "group" THEN {cell}
  ELSE IF cell.t = "groups" THEN cell.ids
  ELSE {}

\* Join as it would be if a row kept the groups it was in beside the new one
JoinKeepingGroups(d, p, q, group_id, confidence) ==
  [d EXCEPT !.rows =
     [k \in DOMAIN d.rows |->
        IF k \in {p, q}
        THEN [d.rows[k] EXCEPT
                !["duplicate_group"] = IF GroupsOf(@) = {} THEN group_id
                                       ELSE [t |-> "groups", ids |-> GroupsOf(@) \cup {group_id}],
                !["is_duplicate"] = TRUE,
                !["duplicate_confidence"] = Max(@, confidence)]
        ELSE d.rows[k]]]

\* df.loc[[p, q], ...] = ...: the rows at positions p and q join group_id
Join(d, p, q, group_id, confidence) ==
  [d EXCEPT !.rows =
     [k \in DOMAIN d.rows |->
        IF k \in {p, q}
        THEN [d.rows[k] EXCEPT !["duplicate_group"] = group_id,
                               !["is_duplicate"] = TRUE,
                               !["duplicate_confidence"] = Max(@, confidence)]
        ELSE d.rows[k]]]

\* .astype(str).str.lower().str.strip() and .astype(str).str.upper().str.strip()
\* on one cell
LowerStripped(v) == strip(lower(astype_str(v)))

UpperStripped(v) == strip(upper(astype_str(v)))

\* the two on the cells of the model's batches, computed once
LowerStrippedCells ==
  [v \in DOMAIN NormalizedAddresses \cup DOMAIN NormalizedCities |-> LowerStripped(v)]

UpperStrippedCells == [v \in DOMAIN NormalizedStates |-> UpperStripped(v)]

LowerKey(v) == IF v \in DOMAIN LowerStrippedCells THEN LowerStrippedCells[v] ELSE LowerStripped(v)

UpperKey(v) == IF v \in DOMAIN UpperStrippedCells THEN UpperStrippedCells[v] ELSE UpperStripped(v)

\* df['_address_key'] of _find_address_duplicates
AddressKey(r) ==
  LowerKey(r["address"]) \o <<"|">> \o LowerKey(r["city"]) \o <<"|">> \o UpperKey(r["state"])

\* df[duplicate_mask]['_address_key'].unique(): the keys two rows or more carry
DuplicatedKeys(d) ==
  IF {"address", "city", "state"} \subseteq d.cols
  THEN {AddressKey(d.rows[k]) : k \in {k \in DOMAIN d.rows :
          \E m \in DOMAIN d.rows : m # k /\ AddressKey(d.rows[m]) = AddressKey(d.rows[k])}}
  ELSE {}

\* _find_address_duplicates as it would be if it grouped nothing
NoAddressPass(d, hash) == d

\* DuplicateHandler._find_address_duplicates; hash[key] is hash(key) % 10000
_find_address_duplicates(d, hash) ==
  IF ~({"address", "city", "state"} \subseteq d.cols) THEN d
  ELSE LET duplicate_keys == DuplicatedKeys(d)
       IN [d EXCEPT !.rows =
          [k \in DOMAIN d.rows |->
             IF AddressKey(d.rows[k]) \in duplicate_keys
             THEN [d.rows[k] EXCEPT
                     !["duplicate_group"] = GroupId("addr", hash[AddressKey(d.rows[k])], 0),
                     !["is_duplicate"] = TRUE,
                     !["duplicate_confidence"] = 10000]
             ELSE d.rows[k]]]

\* lines 106-125 as they would be if they joined every pair within the
\* distance, whatever its addresses
CoordinateJoinByDistance(d, p, q, i, j, distance, addr_similarity) ==
  IF distance = RAISES \/ addr_similarity = RAISES THEN d
  ELSE IF distance <= coordinate_threshold
       THEN Join(d, p, q, GroupId("coord", i, j),
                 Min(9000, 5000 + (addr_similarity * 4) \div 10))
       ELSE d

\* lines 106-125 as they would be if they joined every pair of similar
\* addresses, whatever its distance
CoordinateJoinBySimilarity(d, p, q, i, j, distance, addr_similarity) ==
  IF distance = RAISES \/ addr_similarity = RAISES THEN d
  ELSE IF addr_similarity > 7000
       THEN Join(d, p, q, GroupId("coord", i, j),
                 Min(9000, 5000 + (addr_similarity * 4) \div 10))
       ELSE d

\* lines 106-125: what the inner loop does with the rows at positions p and q
\* (labels i and j) once it has their distance and their address similarity;
\* an exception raised in the try block skips the pair
CoordinateJoin(d, p, q, i, j, distance, addr_similarity) ==
  IF distance = RAISES THEN d
  ELSE IF distance <= coordinate_threshold
       THEN IF addr_similarity = RAISES THEN d
            ELSE IF addr_similarity > 7000
                 THEN Join(d, p, q, GroupId("coord", i, j),
                           Min(9000, 5000 + (addr_similarity * 4) \div 10))
                 ELSE d
       ELSE d

\* the body of the inner loop of _find_coordinate_duplicates for the rows at
\* positions p (row1, label i) and q (row2, label j)
CoordinatePair(d, coord_df, p, q) ==
  IF coord_df[p]["index"] >= coord_df[q]["index"] \/ d.rows[q]["is_duplicate"] THEN d
  ELSE CoordinateJoin(d, p, q, coord_df[p]["index"], coord_df[q]["index"],
         geodesic(<<coord_df[p]["latitude"], coord_df[p]["longitude"]>>,
                  <<coord_df[q]["latitude"], coord_df[q]["longitude"]>>),
         _calculate_address_similarity(Get(coord_df[p], "address", Str(<< >>)),
                                       Get(coord_df[q], "address", Str(<< >>))))

\* the inner loop as it would be if it ended once row1 is joined
RECURSIVE CoordinateInnerUntilJoined(_, _, _, _, _)
CoordinateInnerUntilJoined(d, coord_df, cs, a, b) ==
  IF b > Len(cs) \/ d.rows[cs[a]]["is_duplicate"] THEN d
  ELSE CoordinateInnerUntilJoined(CoordinatePair(d, coord_df, cs[a], cs[b]), coord_df, cs, a, b + 1)

\* for j, row2 in coord_df.iterrows(), from the b-th row of coord_df on
RECURSIVE CoordinateInner(_, _, _, _, _)
CoordinateInner(d, coord_df, cs, a, b) ==
  IF b > Len(cs) THEN d
  ELSE CoordinateInner(CoordinatePair(d, coord_df, cs[a], cs[b]), coord_df, cs, a, b + 1)

\* for i, row1 in coord_df.iterrows(), from the a-th row of coord_df on: a row
\* that is a duplicate when its turn comes is skipped
RECURSIVE CoordinateOuter(_, _, _, _)
CoordinateOuter(d, coord_df, cs, a) ==
  IF a > Len(cs) THEN d
  ELSE IF d.rows[cs[a]]["is_duplicate"] THEN CoordinateOuter(d, coord_df, cs, a + 1)
  ELSE CoordinateOuter(CoordinateInner(d, coord_df, cs, a, 1), coord_df, cs, a + 1)

\* DuplicateHandler._find_coordinate_duplicates
_find_coordinate_duplicates(d) ==
  IF ~({"latitude", "longitude"} \subseteq d.cols) THEN d
  ELSE LET cs == Ascending({k \in DOMAIN d.rows :
                     notna(d.rows[k]["latitude"]) /\ notna(d.rows[k]["longitude"])})
       IN IF Len(cs) < 2 THEN d ELSE CoordinateOuter(d, d.rows, cs, 1)

\* the final confidence as it would be if the combined similarity were not
\* weighted
FinalConfidenceUnweighted(combined_similarity, char_similarity) ==
  combined_similarity + (char_similarity * 3) \div 10

\* lines 153-171: the final confidence of a pair whose combined similarity
\* reached the threshold
FinalConfidence(combined_similarity, char_similarity) ==
  (combined_similarity * 7 + char_similarity * 3) \div 10

\* what the loops do with the rows at positions p and q (labels i and j) once
\* they have the similarities of the pair: the DataFrame, and whether the pair
\* raised; the characteristics are compared only when the combined similarity
\* reaches the threshold
FuzzyJoin(d, p, q, i, j, addr_similarity, city_similarity, char_similarity) ==
  IF addr_similarity = RAISES \/ city_similarity = RAISES THEN [d |-> d, raised |-> TRUE]
  ELSE IF (addr_similarity * 8 + city_similarity * 2) \div 10 >= address_threshold
       THEN IF char_similarity = RAISES THEN [d |-> d, raised |-> TRUE]
            ELSE IF FinalConfidence((addr_similarity * 8 + city_similarity * 2) \div 10,
                                    char_similarity) >= 7500
                 THEN [d |-> Join(d, p, q, GroupId("fuzzy", i, j),
                                  FinalConfidence((addr_similarity * 8 + city_similarity * 2) \div 10,
                                                  char_similarity)),
                       raised |-> FALSE]
                 ELSE [d |-> d, raised |-> FALSE]
       ELSE [d |-> d, raised |-> FALSE]

\* the body of the loops of _find_fuzzy_duplicates for the rows at positions p
\* and q of the snapshot; an exception leaves the method
FuzzyPair(d, non_duplicate_df, p, q) ==
  IF non_duplicate_df[p]["index"] >= non_duplicate_df[q]["index"]
  THEN [d |-> d, raised |-> FALSE]
  ELSE FuzzyJoin(d, p, q, non_duplicate_df[p]["index"], non_duplicate_df[q]["index"],
         _calculate_address_similarity(Get(non_duplicate_df[p], "address", Str(<< >>)),
                                       Get(non_duplicate_df[q], "address", Str(<< >>))),
         _calculate_string_similarity(Get(non_duplicate_df[p], "city", Str(<< >>)),
                                      Get(non_duplicate_df[q], "city", Str(<< >>))),
         _calculate_property_similarity(non_duplicate_df[p], non_duplicate_df[q]))

\* the two loops of _find_fuzzy_duplicates from the pair (ns[a], ns[b]) on,
\* until they end or a pair raises
RECURSIVE FuzzyLoop(_, _, _, _, _)
FuzzyLoop(d, non_duplicate_df, ns, a, b) ==
  IF a > Len(ns) THEN [d |-> d, raised |-> FALSE]
  ELSE IF b > Len(ns) THEN FuzzyLoop(d, non_duplicate_df, ns, a + 1, 1)
  ELSE LET r == FuzzyPair(d, non_duplicate_df, ns[a], ns[b])
       IN IF r.raised THEN r
          ELSE FuzzyLoop(r.d, non_duplicate_df, ns, a, b + 1)

\* _find_fuzzy_duplicates as it would be if it compared every row, the rows
\* that are duplicates already among them
FuzzyOverAllRows(d) ==
  IF "address" \notin d.cols THEN [d |-> d, raised |-> FALSE]
  ELSE LET ns == Ascending(DOMAIN d.rows)
       IN IF Len(ns) < 2 THEN [d |-> d, raised |-> FALSE]
          ELSE FuzzyLoop(d, d.rows, ns, 1, 1)

\* DuplicateHandler._find_fuzzy_duplicates: the DataFrame it leaves, and
\* whether it raised
_find_fuzzy_duplicates(d) ==
  IF "address" \notin d.cols THEN [d |-> d, raised |-> FALSE]
  ELSE LET ns == Ascending({k \in DOMAIN d.rows : ~d.rows[k]["is_duplicate"]})
       IN IF Len(ns) < 2 THEN [d |-> d, raised |-> FALSE]
          ELSE FuzzyLoop(d, d.rows, ns, 1, 1)

\* the fields _choose_best_record counts
important_fields ==
  <<"address", "city", "state", "latitude", "longitude",
    "bedrooms", "bathrooms", "square_feet", "current_price">>

\* the score as it would be if updated_at did not count
ScoreWithoutRecency(row) ==
  Get(row, "duplicate_confidence", 0) * 10
  + 10000 * Cardinality({k \in DOMAIN important_fields :
                           /\ important_fields[k] \in DOMAIN row
                           /\ Populated(row[important_fields[k]])})

\* the score _choose_best_record gives a row
Score(row) ==
  Get(row, "duplicate_confidence", 0) * 10
  + 10000 * Cardinality({k \in DOMAIN important_fields :
                           /\ important_fields[k] \in DOMAIN row
                           /\ Populated(row[important_fields[k]])})
  + (IF "updated_at" \in DOMAIN row /\ notna(row["updated_at"]) THEN 50000 ELSE 0)

\* _choose_best_record as it would be if it kept the last member of the group
ChooseLastRecord(d, members) == members[Len(members)]

\* DuplicateHandler._choose_best_record: max() keeps the first of the rows
\* with the highest score; `members` are positions of df, ascending
_choose_best_record(d, members) ==
  CHOOSE p \in DOMAIN d.rows :
    /\ \E k \in DOMAIN members : members[k] = p
    /\ \A k \in DOMAIN members :
         \/ Score(d.rows[p]) > Score(d.rows[members[k]])
         \/ Score(d.rows[p]) = Score(d.rows[members[k]]) /\ p <= members[k]

\* the inner loop as it would be if best_record took every populated value of
\* row
MergeFromOverwriting(best_record, row, cols) ==
  [c \in DOMAIN best_record |->
     IF c \in cols \ MetadataColumns /\ Populated(row[c]) THEN row[c] ELSE best_record[c]]

\* the inner loop of _merge_duplicate_records: best_record takes from row the
\* values of the columns it lacks
MergeFrom(best_record, row, cols) ==
  [c \in DOMAIN best_record |->
     IF c \in cols \ MetadataColumns /\ ~Populated(best_record[c]) /\ Populated(row[c])
     THEN row[c]
     ELSE best_record[c]]

\* the outer loop of _merge_duplicate_records, from the k-th member on
RECURSIVE MergeLoop(_, _, _, _, _)
MergeLoop(best_record, d, members, best_idx, k) ==
  IF k > Len(members) THEN best_record
  ELSE IF members[k] = best_idx THEN MergeLoop(best_record, d, members, best_idx, k + 1)
  ELSE MergeLoop(MergeFrom(best_record, d.rows[members[k]], d.cols), d, members, best_idx, k + 1)

\* DuplicateHandler._merge_duplicate_records
_merge_duplicate_records(d, members, best_idx) ==
  MergeLoop(d.rows[best_idx], d, members, best_idx, 1)

\* the body of the loop as it would be if line 308 took the other indices
\* from df and not from group_df
ResolveGroupFlaggingAll(d, group_id) ==
  LET members == Ascending({k \in DOMAIN d.rows : d.rows[k]["duplicate_group"] = group_id})
  IN IF isna(group_id) \/ Len(members) <= 1 THEN d
     ELSE LET best_idx == _choose_best_record(d, members)
              merged_record == _merge_duplicate_records(d, members, best_idx)
          IN [d EXCEPT !.rows =
                [k \in DOMAIN d.rows |->
                   IF k = best_idx THEN [merged_record EXCEPT !["is_duplicate"] = FALSE]
                   ELSE [d.rows[k] EXCEPT !["is_duplicate"] = TRUE]]]

\* the body of the loop of _resolve_duplicates for one group_id
ResolveGroup(d, group_id) ==
  LET members == Ascending({k \in DOMAIN d.rows : d.rows[k]["duplicate_group"] = group_id})
  IN IF isna(group_id) \/ Len(members) <= 1 THEN d
     ELSE LET best_idx == _choose_best_record(d, members)
              merged_record == _merge_duplicate_records(d, members, best_idx)
          IN [d EXCEPT !.rows =
                [k \in DOMAIN d.rows |->
                   IF k = best_idx THEN [merged_record EXCEPT !["is_duplicate"] = FALSE]
                   ELSE IF \E m \in DOMAIN members : members[m] = k
                        THEN [d.rows[k] EXCEPT !["is_duplicate"] = TRUE]
                        ELSE d.rows[k]]]

\* df[df['is_duplicate']]['duplicate_group'].unique(): the group ids of the
\* duplicates, each once, in the order of their first row
RECURSIVE UniqueGroups(_, _)
UniqueGroups(rows, seen) ==
  IF rows = << >> THEN << >>
  ELSE LET r == Head(rows)
       IN IF r["is_duplicate"] /\ r["duplicate_group"] \notin seen
          THEN <<r["duplicate_group"]>> \o UniqueGroups(Tail(rows), seen \cup {r["duplicate_group"]})
          ELSE UniqueGroups(Tail(rows), seen)

RECURSIVE ResolveLoop(_, _, _)
ResolveLoop(d, duplicate_groups, k) ==
  IF k > Len(duplicate_groups) THEN d
  ELSE ResolveLoop(ResolveGroup(d, duplicate_groups[k]), duplicate_groups, k + 1)

\* DuplicateHandler._resolve_duplicates
_resolve_duplicates(d) ==
  IF \A k \in DOMAIN d.rows : ~d.rows[k]["is_duplicate"] THEN d
  ELSE ResolveLoop(d, UniqueGroups(d.rows, {}), 1)

\* lines 375-379 as they would be if they dropped the columns and no row
DropColumnsOnly(d) ==
  [cols |-> d.cols \ MetadataColumns,
   rows |-> [k \in DOMAIN d.rows |->
               [c \in DOMAIN d.rows[k] \ MetadataColumns |-> d.rows[k][c]]]]

\* remove_duplicates, lines 375-379: the rows that are no duplicates, without
\* the columns of the matching
DropDuplicateRowsAndColumns(d) ==
  [cols |-> d.cols \ MetadataColumns,
   rows |-> LET kept == SelectSeq(d.rows, LAMBDA r : ~r["is_duplicate"])
            IN [k \in DOMAIN kept |->
                  [c \in DOMAIN kept[k] \ MetadataColumns |-> kept[k][c]]]]

---------------------------------------------------------------------------
(* The batches *)

\* the largest batch of listings of one street (Spec), and of records that were
\* not normalized (SpecDirect)
MaxBatch == 3

\* the largest batch of listings near and far (Spec)
MaxWideBatch == 2

\* the largest batch of SpecNorm
MaxNormBatch == 2

\* the marker of a key that a raw dict does not have
Absent == [t |-> "absent"]

\* the dict with the keys of `fields` whose value is not Absent
Dict(fields) == [c \in {c \in DOMAIN fields : fields[c] # Absent} |-> fields[c]]

\* downtown San Francisco (demo_script.py), and a point 50 km north of it
Downtown == <<Num(3777490), Num(-12241940)>>

FarNorth == <<Num(3822540), Num(-12241940)>>

NoCoordinates == <<Absent, Absent>>

\* a latitude no place has, as a provider's faulty feed gives it
OffTheMap == <<Num(9999999), Num(-12241940)>>

\* the price of the k-th listing of a batch: 850000, 855000, ... (demo_script.py),
\* so that a price tells which listing it came from
PriceOf(k) == Num(850000 + 5000 * (k - 1))

\* the raw dict of a listing
Listing(address, city, state, coordinates, bedrooms, current_price) ==
  Dict([address       |-> address,
        city          |-> city,
        state         |-> state,
        latitude      |-> coordinates[1],
        longitude     |-> coordinates[2],
        bedrooms      |-> bedrooms,
        current_price |-> current_price])

\* the batches of up to n listings, the k-th made by Make(l, k) of a choice l
\* of `choices`
BatchesOf(choices, n, Make(_, _)) ==
  UNION {{[k \in 1..m |-> Make(ls[k], k)] : ls \in [1..m -> choices]} : m \in 0..n}

\* the k-th listing of a batch of San Francisco: l gives its address, its
\* coordinates and its bedrooms
CityListing(l, k) == Listing(l[1], Str(SanFrancisco), Str(CA), l[2], l[3], PriceOf(k))

\* the listings of one street, with and without coordinates and bedrooms
StreetListings ==
  {Str(MarketSt), Str(MarketStreet), Str(MarketSt125)}
    \X {Downtown, NoCoordinates}
    \X {Num(2), Absent}

\* the same and another street, also 50 km away
WideListings ==
  {Str(MarketSt), Str(MarketStreet), Str(MarketSt125), Str(OakAve)}
    \X {Downtown, FarNorth, NoCoordinates}
    \X {Num(2), Absent}

\* a listing of a batch of SpecNorm: its address, city and state, present or
\* missing in the ways a provider leaves them out
NormListings ==
  {Str(MarketSt), Str(MarketStSloppy), Str(<< >>), NoneV, Absent}
    \X {Str(SanFrancisco), Absent}
    \X {Str(CA), Str(California), Str(Ontario), Str(<< >>), NoneV, Absent}

DollarPrice == <<"$","8","5","0",",","0","0","0">>

\* the listing whose numbers come as a provider's text, and off the map
TextListing ==
  Listing(Str(MarketSt125), Str(SanFrancisco), Str(CA), OffTheMap, Str(<<"2">>), Str(DollarPrice))

NormListing(l, k) ==
  IF l = "text" THEN TextListing ELSE Listing(l[1], l[2], l[3], Downtown, Num(2), Num(850000))

\* a record of a batch of SpecDirect: its address and its coordinates
DirectListings ==
  {Str(MarketSt), Str(MarketStLower), Str(MarketSt125), Absent} \X {Downtown, NoCoordinates}

DirectListing(l, k) == Listing(l[1], Str(SanFrancisco), Str(CA), l[2], Num(2), PriceOf(k))

\* the largest batch of listings that differ in their numeric fields, and of
\* listings that differ in their coordinates or in their state (SpecFields)
MaxNumericBatch == 1

MaxFieldBatch == 2

\* the address of the k-th listing of a batch whose listings are of
\* different properties
AddressOf(k) == IF k = 1 THEN Str(MarketSt) ELSE Str(OakAve)

\* bedrooms, bathrooms, square_feet, lot_size and year_built at and beside
\* the limits of lines 199-206, missing, and as text
NumericListings ==
  {Absent, Num(-1), Num(0), Num(20), Num(21), Str(<<"2">>)}
    \X {Absent, Num(21)}
    \X {Absent, Num(99), Num(100), Num(50000), Num(50001)}
    \X {Absent, Num(-5)}
    \X {Absent, Num(1799), Num(1800), Num(2025), Num(2026)}

NumericListing(l, k) ==
  Dict([address       |-> AddressOf(k),
        city          |-> Str(SanFrancisco),
        state         |-> Str(CA),
        bedrooms      |-> l[1],
        bathrooms     |-> l[2],
        square_feet   |-> l[3],
        lot_size      |-> l[4],
        year_built    |-> l[5],
        current_price |-> PriceOf(k)])

\* latitude and longitude at and beside the limits of lines 222-227, and
\* missing
PlaceListings ==
  {Absent, Num(2399999), Num(2400000), Num(7100000), Num(7100001)}
    \X {Absent, Num(-18000001), Num(-18000000), Num(-6600000), Num(-6599999)}

PlaceListing(l, k) ==
  Listing(AddressOf(k), Str(SanFrancisco), Str(CA), l, Num(2), PriceOf(k))

\* states as providers write them: a code, a code in lower case, a name, the
\* name of a province, an abbreviation with dots, a single letter
StateListings ==
  {Str(CA), Str(<<"c","a">>), Str(California), Str(Ontario),
   Str(<<"D",".","C",".">>), Str(<<"Q">>)}

StateListing(l, k) ==
  Listing(AddressOf(k), Str(SanFrancisco), l, Downtown, Num(2), PriceOf(k))

\* the largest batch of an invocation that runs beside another (SpecCalls)
MaxCallBatch == 2

\* the listings of those batches: one property, its suffix abbreviated or
\* spelled out, with or without bedrooms
CallListings ==
  {Str(MarketSt), Str(MarketStreet)} \X {Downtown} \X {Num(2), Absent}

---------------------------------------------------------------------------
\* the largest batch of listings that differ in what they bring to a group
\* (SpecResolve)
MaxResolveBatch == 3

\* prop.updated_at.isoformat() of app/main.py, a day of the demonstration
Timestamp == <<"2","0","2","4","-","0","1","-","1","5">>

\* the listings of those batches: one property, its suffix abbreviated or
\* spelled out; two or three bedrooms, or none given; updated_at missing,
\* given, or left empty by the provider
ResolveListings ==
  {Str(MarketSt), Str(MarketStreet)}
    \X {Num(2), Num(3), Absent}
    \X {Absent, Str(Timestamp), Str(<< >>)}

ResolveListing(l, k) ==
  Dict([address       |-> l[1],
        city          |-> Str(SanFrancisco),
        state         |-> Str(CA),
        latitude      |-> Downtown[1],
        longitude     |-> Downtown[2],
        bedrooms      |-> l[2],
        current_price |-> PriceOf(k),
        updated_at    |-> l[3]])

---------------------------------------------------------------------------
\* the largest batch of records of two properties that come twice (SpecKeys)
MaxKeyBatch == 4

\* the records of those batches: one of two addresses, with or without
\* bedrooms, no coordinates
KeyListings == {Str(MarketSt), Str(OakAve)} \X {NoCoordinates} \X {Num(2), Absent}

---------------------------------------------------------------------------
\* the largest batch of listings that differ in the characteristics they give
\* (SpecTraits)
MaxTraitBatch == 2

\* the listings of those batches: one property, its suffix abbreviated or
\* spelled out, without coordinates; bedrooms given or not; property_type
\* given, null, or not a key of the dict
TraitListings ==
  {Str(MarketSt), Str(MarketStreet)}
    \X {Num(2), Absent}
    \X {Str(<<"c","o","n","d","o">>), NoneV, Absent}

TraitListing(l, k) ==
  Dict([address       |-> l[1],
        city          |-> Str(SanFrancisco),
        state         |-> Str(CA),
        bedrooms      |-> l[2],
        property_type |-> l[3],
        current_price |-> PriceOf(k)])

---------------------------------------------------------------------------
(* The pipeline: collect_and_process_data of app/main.py, demo_data_processing of
   demo_script.py *)

\* the values hash(key) % 10000 takes in the model: 0..MaxHash
MaxHash == 1

Start ==
  /\ df = EmptyDataFrame
  /\ given = EmptyDataFrame
  /\ normalized = FALSE
  /\ renorm = EmptyDataFrame
  /\ cleaned_df = EmptyDataFrame
  /\ raised = FALSE
  /\ pc = "collected"
  /\ calls = << >>
  /\ quotas = << >>
  /\ month = 0
  /\ requests = << >>

\* the batches of Spec: up to MaxBatch listings of one street, or up to
\* MaxWideBatch listings near and far
Init ==
  /\ properties \in BatchesOf(StreetListings, MaxBatch, CityListing)
                      \cup BatchesOf(WideListings, MaxWideBatch, CityListing)
  /\ Start

InitNorm ==
  /\ properties \in BatchesOf(NormListings \cup {"text"}, MaxNormBatch, NormListing)
  /\ Start

InitDirect ==
  /\ properties \in BatchesOf(DirectListings, MaxBatch, DirectListing)
  /\ Start

\* the batches of SpecFields
InitFields ==
  /\ properties \in BatchesOf(NumericListings, MaxNumericBatch, NumericListing)
                      \cup BatchesOf(PlaceListings, MaxFieldBatch, PlaceListing)
                      \cup BatchesOf(StateListings, MaxFieldBatch, StateListing)
  /\ Start

\* the batches of SpecResolve
InitResolve ==
  /\ properties \in BatchesOf(ResolveListings, MaxResolveBatch, ResolveListing)
  /\ Start

\* the batches of SpecKeys
InitKeys ==
  /\ properties \in BatchesOf(KeyListings, MaxKeyBatch, CityListing)
  /\ Start

\* the batches of SpecTraits
InitTraits ==
  /\ properties \in BatchesOf(TraitListings, MaxTraitBatch, TraitListing)
  /\ Start

\* df = data_normalizer.normalize_properties_batch(all_properties)
NormalizeBatch ==
  /\ pc = "collected"
  /\ df' = normalize_properties_batch(properties)
  /\ normalized' = TRUE
  /\ pc' = "normalized"
  /\ UNCHANGED <<quota_vars, calls, properties, given, renorm, cleaned_df, raised>>

\* normalize_properties_batch on the records it produced
Renormalize ==
  /\ pc = "normalized"
  /\ renorm' = normalize_properties_batch(to_dict_records(df))
  /\ pc' = "renormalized"
  /\ UNCHANGED <<quota_vars, calls, properties, df, given, normalized, cleaned_df, raised>>

\* a caller that hands the records to remove_duplicates as they came
BuildDataFrame ==
  /\ pc = "collected"
  /\ df' = DataFrame(properties)
  /\ normalized' = FALSE
  /\ pc' = "normalized"
  /\ UNCHANGED <<quota_vars, calls, properties, given, renorm, cleaned_df, raised>>

\* remove_duplicates(df) calls find_duplicates(df), which returns an empty df
\* at once, and otherwise adds its columns and runs the exact key pass
AddressPass ==
  /\ pc = "normalized"
  /\ given' = df
  /\ IF Empty(df)
     THEN df' = df /\ pc' = "found"
     ELSE /\ \E hash \in [DuplicatedKeys(df) -> 0..MaxHash] :
               df' = _find_address_duplicates(AddDuplicateColumns(df), hash)
          /\ pc' = "address"
  /\ UNCHANGED <<quota_vars, calls, properties, normalized, renorm, cleaned_df, raised>>

\* df = self._find_coordinate_duplicates(df)
CoordinatePass ==
  /\ pc = "address"
  /\ df' = _find_coordinate_duplicates(df)
  /\ pc' = "coordinate"
  /\ UNCHANGED <<quota_vars, calls, properties, given, normalized, renorm, cleaned_df, raised>>

\* df = self._find_fuzzy_duplicates(df); an exception ends find_duplicates at
\* line 46, with the rows as the passes left them and nothing resolved
FuzzyPass ==
  /\ pc = "coordinate"
  /\ LET r == _find_fuzzy_duplicates(df)
     IN /\ df' = r.d
        /\ raised' = r.raised
        /\ pc' = IF r.raised THEN "found" ELSE "fuzzy"
  /\ UNCHANGED <<quota_vars, calls, properties, given, normalized, renorm, cleaned_df>>

\* df = self._resolve_duplicates(df)
ResolveDuplicates ==
  /\ pc = "fuzzy"
  /\ df' = _resolve_duplicates(df)
  /\ pc' = "found"
  /\ UNCHANGED <<quota_vars, calls, properties, given, normalized, renorm, cleaned_df, raised>>

\* the rest of remove_duplicates: df['is_duplicate'] raises KeyError when
\* find_duplicates returned a df without the column
RemoveDuplicates ==
  /\ pc = "found"
  /\ IF "is_duplicate" \in df.cols
     THEN cleaned_df' = DropDuplicateRowsAndColumns(df) /\ pc' = "removed"
     ELSE cleaned_df' = cleaned_df /\ pc' = "KeyError"
  /\ UNCHANGED <<quota_vars, calls, properties, df, given, normalized, renorm, raised>>

\* find_duplicates and the rest of remove_duplicates
Deduplicate ==
  \/ AddressPass
  \/ CoordinatePass
  \/ FuzzyPass
  \/ ResolveDuplicates
  \/ RemoveDuplicates

\* the pipeline on the batches of listings that differ in address, place and
\* characteristics
Next == NormalizeBatch \/ Deduplicate

Spec == Init /\ [][Next]_vars

\* the normalizer, and the normalizer on its own output, on the batches of
\* listings that differ in how they give address, city and state
NextNorm == NormalizeBatch \/ Renormalize

SpecNorm == InitNorm /\ [][NextNorm]_vars

\* the normalizer on the batches of listings that differ in their numeric
\* fields, their coordinates and their state
SpecFields == InitFields /\ [][NextNorm]_vars

\* remove_duplicates on records that were normalized or not, on the batches of
\* listings that share a composite key
NextDirect == NormalizeBatch \/ BuildDataFrame \/ Deduplicate

SpecDirect == InitDirect /\ [][NextDirect]_vars

\* the same on the batches of listings that differ in what they bring to a
\* group
SpecResolve == InitResolve /\ [][NextDirect]_vars

\* the same on the batches of records of two properties that come twice
SpecKeys == InitKeys /\ [][NextDirect]_vars

\* the same on the batches of listings that differ in the characteristics
\* they give
SpecTraits == InitTraits /\ [][NextDirect]_vars

---------------------------------------------------------------------------
(* Two invocations of collect_and_process_data, lines 325-331 of app/main.py, on the
   data_normalizer and the duplicate_handler of lines 41-42.  The instances
   have no attribute that a call writes, so what a call works on is its
   locals. *)

Calls == 1..2

\* the locals of an invocation that was handed the batch props
CallOf(props) ==
  [properties |-> props,
   df         |-> EmptyDataFrame,
   given      |-> EmptyDataFrame,
   cleaned_df |-> EmptyDataFrame,
   raised     |-> FALSE,
   pc         |-> "collected"]

\* the locals as they would be if the working DataFrame were an attribute of
\* the shared instance: every invocation sees the df written last
StoreOnInstance(cs, c, call) ==
  [o \in DOMAIN cs |-> IF o = c THEN call ELSE [cs[o] EXCEPT !.df = call.df]]

\* invocation c leaves its step with the locals `call`; the locals of the
\* other invocations are theirs
Store(cs, c, call) == [cs EXCEPT ![c] = call]

\* the locals of an invocation after the next step of remove_duplicates;
\* main.py returns before the call when the normalized df is empty
AfterPass(call, hash) ==
  CASE call.pc = "normalized" ->
         IF Empty(call.df) THEN [call EXCEPT !.pc = "returned"]
         ELSE [call EXCEPT !.given = call.df,
                           !.df = _find_address_duplicates(AddDuplicateColumns(call.df), hash),
                           !.pc = "address"]
    [] call.pc = "address" ->
         [call EXCEPT !.df = _find_coordinate_duplicates(call.df), !.pc = "coordinate"]
    [] call.pc = "coordinate" ->
         LET r == _find_fuzzy_duplicates(call.df)
         IN [call EXCEPT !.df = r.d, !.raised = r.raised,
                         !.pc = IF r.raised THEN "found" ELSE "fuzzy"]
    [] call.pc = "fuzzy" ->
         [call EXCEPT !.df = _resolve_duplicates(call.df), !.pc = "found"]
    [] call.pc = "found" ->
         [call EXCEPT !.cleaned_df = DropDuplicateRowsAndColumns(call.df), !.pc = "removed"]

InitCalls ==
  /\ calls \in [Calls -> {CallOf(props) :
                             props \in BatchesOf(CallListings, MaxCallBatch, CityListing)}]
  /\ properties = << >>
  /\ df = EmptyDataFrame
  /\ given = EmptyDataFrame
  /\ normalized = FALSE
  /\ renorm = EmptyDataFrame
  /\ cleaned_df = EmptyDataFrame
  /\ raised = FALSE
  /\ pc = "collected"
  /\ quotas = << >>
  /\ month = 0
  /\ requests = << >>

\* invocation c runs line 325
CallNormalize(c) ==
  /\ calls[c].pc = "collected"
  /\ calls' = Store(calls, c, [calls[c] EXCEPT
                                 !.df = normalize_properties_batch(calls[c].properties),
                                 !.pc = "normalized"])
  /\ UNCHANGED <<quota_vars, properties, df, pc, raised, given, normalized, renorm, cleaned_df>>

\* invocation c runs lines 326-331 one step of remove_duplicates further
CallPass(c) ==
  /\ calls[c].pc \in {"normalized", "address", "coordinate", "fuzzy", "found"}
  /\ \E hash \in [DuplicatedKeys(calls[c].df) -> 0..MaxHash] :
       calls' = Store(calls, c, AfterPass(calls[c], hash))
  /\ UNCHANGED <<quota_vars, properties, df, pc, raised, given, normalized, renorm, cleaned_df>>

NextCalls == \E c \in Calls : CallNormalize(c) \/ CallPass(c)

SpecCalls == InitCalls /\ [][NextCalls]_vars

---------------------------------------------------------------------------
(* The quota manager: utils/quota_manager.py, asked by get_properties of
   collectors/rentcast_collector.py through _check_quota and
   _record_quota_usage of collectors/base_collector.py.  quota_manager is one
   object of the module; nothing in these files takes a lock. *)

\* the threads that call get_properties, and the calls each of them makes
MaxCollectors == 2

MaxRequests == 2

\* the months the clock can advance
MaxMonths == 1

\* self.monthly_limits, the limits that are numbers
monthly_limits == [rentcast |-> 50, zillow |-> 100, rentspider |-> 1000]

\* the used count the quota file can hold for rentcast when the process starts
StoredUsed == {48, 49, 50}

\* QuotaManager._initialize_api_quota, at month m
_initialize_api_quota(q, api_name, m) ==
  IF api_name \in DOMAIN q THEN q
  ELSE [a \in DOMAIN q \cup {api_name} |->
          IF a = api_name
          THEN [used |-> 0, reset_date |-> m + 1, limit |-> monthly_limits[api_name]]
          ELSE q[a]]

\* QuotaManager._reset_quota_if_needed, at month m
_reset_quota_if_needed(q, api_name, m) ==
  IF api_name \in DOMAIN q /\ m >= q[api_name].reset_date
  THEN [q EXCEPT ![api_name].used = 0, ![api_name].reset_date = m + 1]
  ELSE q

\* lines 94-95 and 114-115: what can_make_request and record_request do to
\* self.quotas before they read it
Prepared(q, api_name, m) ==
  _reset_quota_if_needed(_initialize_api_quota(q, api_name, m), api_name, m)

\* QuotaManager.can_make_request, lines 97-110, on the prepared quotas
can_make_request(q, api_name, num_requests) ==
  q[api_name].limit - q[api_name].used >= num_requests

\* the process starts: the quota file is missing, or holds a used count for
\* rentcast; no call has begun
InitQuota ==
  /\ quotas \in {<< >>} \cup {[a \in {"rentcast"} |->
                                 [used |-> u, reset_date |-> 1, limit |-> monthly_limits[a]]] :
                               u \in StoredUsed}
  /\ month = 0
  /\ requests = [t \in 1..MaxCollectors |-> [pc |-> "idle", left |-> MaxRequests, used |-> 0]]
  /\ properties = << >>
  /\ df = EmptyDataFrame
  /\ given = EmptyDataFrame
  /\ normalized = FALSE
  /\ renorm = EmptyDataFrame
  /\ cleaned_df = EmptyDataFrame
  /\ raised = FALSE
  /\ pc = "collected"
  /\ calls = << >>

\* what the pipeline writes
pipeline_vars == <<properties, df, pc, raised, given, normalized, renorm, cleaned_df, calls>>

\* get_properties, lines 36-38: _check_quota(1); when it fails the call
\* returns []
CheckQuota(t) ==
  /\ requests[t].pc = "idle"
  /\ requests[t].left > 0
  /\ quotas' = Prepared(quotas, "rentcast", month)
  /\ requests' = [requests EXCEPT ![t] =
                    IF can_make_request(quotas', "rentcast", 1)
                    THEN [@ EXCEPT !.pc = "checked"]
                    ELSE [@ EXCEPT !.left = @ - 1]]
  /\ UNCHANGED <<month, pipeline_vars>>

\* line 59: _make_request returns a response
RequestSucceeds(t) ==
  /\ requests[t].pc = "checked"
  /\ requests' = [requests EXCEPT ![t].pc = "responded"]
  /\ UNCHANGED <<quotas, month, pipeline_vars>>

\* line 59: _make_request raises after its retries; line 79 catches, nothing
\* is recorded and the call returns []
RequestFails(t) ==
  /\ requests[t].pc = "checked"
  /\ requests' = [requests EXCEPT ![t] = [@ EXCEPT !.pc = "idle", !.left = @ - 1]]
  /\ UNCHANGED <<quotas, month, pipeline_vars>>

\* record_request, lines 114-117: the quotas are prepared and the right-hand
\* side of `used += num_requests` is read
RecordRead(t) ==
  /\ requests[t].pc = "responded"
  /\ quotas' = Prepared(quotas, "rentcast", month)
  /\ requests' = [requests EXCEPT ![t] = [@ EXCEPT !.pc = "read", !.used = quotas'["rentcast"].used]]
  /\ UNCHANGED <<month, pipeline_vars>>

\* record_request, line 117: the sum is stored; the call returns its listings
RecordWrite(t) ==
  /\ requests[t].pc = "read"
  /\ quotas' = [quotas EXCEPT !["rentcast"].used = requests[t].used + 1]
  /\ requests' = [requests EXCEPT ![t] = [@ EXCEPT !.pc = "idle", !.left = @ - 1]]
  /\ UNCHANGED <<month, pipeline_vars>>

\* datetime.now() passes into the next month
MonthPasses ==
  /\ month < MaxMonths
  /\ month' = month + 1
  /\ UNCHANGED <<quotas, requests, pipeline_vars>>

NextQuota ==
  \/ \E t \in 1..MaxCollectors :
       CheckQuota(t) \/ RequestSucceeds(t) \/ RequestFails(t) \/ RecordRead(t) \/ RecordWrite(t)
  \/ MonthPasses

\* get_properties called on threads of one process
SpecQuota == InitQuota /\ [][NextQuota]_vars

---------------------------------------------------------------------------
(* The vocabulary of the properties *)

\* the index labels of the rows of d; the record at position k of the batch
\* has label k - 1
Labels(d) == {d.rows[k]["index"] : k \in DOMAIN d.rows}

\* the row of d with label i
RowAt(d, i) == d.rows[CHOOSE k \in DOMAIN d.rows : d.rows[k]["index"] = i]

\* the ids of the groups of d
GroupIds(d) == UNION {GroupsOf(d.rows[k]["duplicate_group"]) : k \in DOMAIN d.rows}

\* the labels of the rows of d that carry the id g
Members(d, g) ==
  {d.rows[k]["index"] : k \in {k \in DOMAIN d.rows : g \in GroupsOf(d.rows[k]["duplicate_group"])}}

\* find_duplicates has run its passes
Matched == pc \in {"fuzzy", "found", "removed"} /\ ~raised

\* remove_duplicates has returned, and its passes ran to their end
Removed == pc = "removed" /\ ~raised

KeyFields == {"address", "city", "state"}

\* a raw record lacks a field: the key is missing, or its value is null or
\* the empty string
Lacks(record, field) ==
  \/ field \notin DOMAIN record
  \/ isna(record[field])
  \/ IsEmptyStr(record[field])

Incomplete(record) == \E field \in KeyFields : Lacks(record, field)

\* the (address, city, state) of a row
Triple(row) == <<Get(row, "address", NaN), Get(row, "city", NaN), Get(row, "state", NaN)>>

\* the (address, city, state) the normalizer makes of a raw record
NormalizedTriple(record) ==
  <<NormalizedAddress(Get(record, "address", NaN)),
    NormalizedCity(Get(record, "city", NaN)),
    NormalizedState(Get(record, "state", NaN))>>

\* the number of the important fields a row has populated
FieldCount(row) ==
  Cardinality({k \in DOMAIN important_fields : Populated(Get(row, important_fields[k], NoneV))})

\* the two rows are at the same latitude and longitude
SamePlace(a, b) ==
  /\ IsNum(Get(a, "latitude", NoneV)) /\ IsNum(Get(b, "latitude", NoneV))
  /\ IsNum(Get(a, "longitude", NoneV)) /\ IsNum(Get(b, "longitude", NoneV))
  /\ a["latitude"] = b["latitude"]
  /\ a["longitude"] = b["longitude"]

\* the two rows are some 50 km apart: 0.45 degrees of latitude and more
FiftyKmApart(a, b) ==
  /\ IsNum(Get(a, "latitude", NoneV)) /\ IsNum(Get(b, "latitude", NoneV))
  /\ Abs(a["latitude"].n - b["latitude"].n) >= 45000

\* the two rows give the same number of bedrooms
SameBedrooms(a, b) ==
  /\ IsNum(Get(a, "bedrooms", NoneV))
  /\ Get(a, "bedrooms", NoneV) = Get(b, "bedrooms", NoneV)

\* a batch of two listings of one property, one with the street suffix
\* abbreviated and one with it spelled out
ScenarioA ==
  /\ Len(properties) = 2
  /\ {properties[1]["address"], properties[2]["address"]} = {Str(MarketSt), Str(MarketStreet)}

\* a batch of two listings with different addresses some 50 km apart
ScenarioB ==
  /\ Len(properties) = 2
  /\ properties[1]["address"] # properties[2]["address"]
  /\ FiftyKmApart(properties[1], properties[2])

\* three listings of one block at one place, all with two bedrooms; the third
\* is of the house next door
OneBlock ==
  <<CityListing(<<Str(MarketSt), Downtown, Num(2)>>, 1),
    CityListing(<<Str(MarketStreet), Downtown, Num(2)>>, 2),
    CityListing(<<Str(MarketSt125), Downtown, Num(2)>>, 3)>>

\* the same, with the bedrooms given by the second listing alone
OneBlockOneBedrooms ==
  <<CityListing(<<Str(MarketSt), Downtown, Absent>>, 1),
    CityListing(<<Str(MarketStreet), Downtown, Num(2)>>, 2),
    CityListing(<<Str(MarketSt125), Downtown, Absent>>, 3)>>

---------------------------------------------------------------------------
(* The properties of remove_duplicates *)

\* C1: of every group of records that share one duplicate_group id when the
\* three passes have ended, exactly one member is in the output of
\* remove_duplicates, and every other member is not.
C1_OneCanonicalPerGroup ==
  Removed =>
    \A g \in GroupIds(df) :
      Cardinality(Members(df, g) \cap Labels(cleaned_df)) = 1

\* the second listing of OneBlock is left alone in coord_0_1 when the first
\* joins the third in coord_0_2, and is in the output no more than the third
C1_OrphanDropped ==
  /\ properties = OneBlock
  /\ Removed
  /\ Members(df, GroupId("coord", 0, 1)) = {1}
  /\ Members(df, GroupId("coord", 0, 2)) = {0, 2}
  /\ Labels(cleaned_df) = {0}

\* C2: for every group and every field that a member had populated before the
\* matching, a member of the group is in the output with the field populated,
\* and with its own value where it had one.
C2_MergeCompleteness ==
  Removed =>
    \A g \in GroupIds(df) : \A c \in given.cols :
      (\E i \in Members(df, g) : Populated(RowAt(given, i)[c])) =>
        \E j \in Members(df, g) \cap Labels(cleaned_df) :
          /\ Populated(RowAt(cleaned_df, j)[c])
          /\ Populated(RowAt(given, j)[c]) => RowAt(cleaned_df, j)[c] = RowAt(given, j)[c]

\* the bedrooms that the second listing alone gave are in no record of the
\* output
C2_BedroomsLost ==
  /\ properties = OneBlockOneBedrooms
  /\ Removed
  /\ Populated(RowAt(given, 1)["bedrooms"])
  /\ Labels(cleaned_df) = {0}
  /\ ~Populated(RowAt(cleaned_df, 0)["bedrooms"])

\* C3: the output of remove_duplicates has no more records than its input,
\* and as many exactly when no group has two members or more.
C3_MonotonicOutputSize ==
  Removed =>
    /\ Len(cleaned_df.rows) <= Len(given.rows)
    /\ Len(cleaned_df.rows) = Len(given.rows)
         <=> \A g \in GroupIds(df) : Cardinality(Members(df, g)) <= 1

\* two of three records were merged into one
C3_TwoOfThreeMerged ==
  /\ Removed
  /\ Len(given.rows) = 3
  /\ Len(cleaned_df.rows) = 2
  /\ \E g \in GroupIds(df) : Cardinality(Members(df, g)) = 2

---------------------------------------------------------------------------
(* The properties of normalize_properties_batch *)

\* C6: normalize_properties_batch, applied to the records it returned,
\* returns the same records, field for field.
C6_NormalizationIdempotent ==
  pc = "renormalized" => to_dict_records(renorm) = to_dict_records(df)

\* the state 'Ontario' is 'ON' after one normalization and 'AZ' after two
C6_OntarioBecomesArizona ==
  /\ pc = "renormalized"
  /\ Len(properties) = 1
  /\ Get(properties[1], "state", NaN) = Str(Ontario)
  /\ Len(df.rows) = 1
  /\ df.rows[1]["state"] = Str(<<"O", "N">>)
  /\ Len(renorm.rows) = 1
  /\ renorm.rows[1]["state"] = Str(<<"A", "Z">>)

\* C7: every input record that lacks address, city or state (key missing,
\* null or empty) is absent from the output of normalize_properties_batch,
\* and every record of the output has the three fields populated.
C7_FinalFilter ==
  pc = "normalized" =>
    /\ \A k \in DOMAIN properties :
         Incomplete(properties[k]) => (k - 1) \notin Labels(df)
    /\ \A k \in DOMAIN df.rows : \A field \in KeyFields :
         field \in df.cols /\ Populated(df.rows[k][field])

\* a record whose address is None is in the output, with the address 'None'
C7_NoneAddressRetained ==
  /\ pc = "normalized"
  /\ Len(properties) = 1
  /\ Get(properties[1], "address", NaN) = NoneV
  /\ Len(df.rows) = 1
  /\ df.rows[1]["address"] = Str(<<"N", "o", "n", "e">>)

\* C8: the output of normalize_properties_batch has no two records with the
\* same (address, city, state), and of the input records that share a triple
\* after normalization the first is the one retained.
C8_NoDuplicateTriples ==
  pc = "normalized" =>
    /\ \A p, q \in DOMAIN df.rows :
         p # q => Triple(df.rows[p]) # Triple(df.rows[q])
    /\ \A k \in DOMAIN properties :
         ~Incomplete(properties[k]) =>
           ((k - 1) \in Labels(df)
              <=> \A m \in 1..(k - 1) :
                    NormalizedTriple(properties[m]) # NormalizedTriple(properties[k]))

\* two records of a batch without the key city are both in the output, with
\* the same address and state
C8_TwinsWithoutCity ==
  /\ pc = "normalized"
  /\ Len(properties) = 2
  /\ "city" \notin df.cols
  /\ Len(df.rows) = 2
  /\ Triple(df.rows[1]) = Triple(df.rows[2])

\* C8 for the records C7 is not about: no two records of the output that
\* came from complete records share a triple, and of the complete records
\* that share one the first is retained
C8_CompleteRecords ==
  pc = "normalized" =>
    /\ \A p, q \in DOMAIN df.rows :
         (p # q /\ ~Incomplete(properties[df.rows[p]["index"] + 1])
                /\ ~Incomplete(properties[df.rows[q]["index"] + 1]))
           => Triple(df.rows[p]) # Triple(df.rows[q])
    /\ \A k \in DOMAIN properties :
         ~Incomplete(properties[k]) =>
           ((k - 1) \in Labels(df)
              <=> \A m \in 1..(k - 1) :
                    NormalizedTriple(properties[m]) # NormalizedTriple(properties[k]))

---------------------------------------------------------------------------
(* The scenarios *)

C10_ScenarioB ==
  ScenarioB =>
    /\ pc \in {"address", "coordinate", "fuzzy"} => GroupIds(df) = {}
    /\ pc = "removed" => cleaned_df.rows = given.rows

\* C10: the two listings of Scenario B are in no group after the exact and
\* the geospatial pass; the fuzzy pass, which does not look at coordinates,
\* groups them exactly when their addresses are of one street and they give
\* the same number of bedrooms; when no group was formed both are in the output
\* of remove_duplicates unchanged, and otherwise one of them is.
C10_ScenarioBByPass ==
  ScenarioB =>
    /\ pc \in {"address", "coordinate"} => GroupIds(df) = {}
    /\ Matched =>
         /\ \A g \in GroupIds(df) : g.kind = "fuzzy"
         /\ GroupIds(df) # {}
              <=> /\ SameBedrooms(given.rows[1], given.rows[2])
                  /\ Str(OakAve) \notin {given.rows[1]["address"], given.rows[2]["address"]}
    /\ Removed =>
         IF GroupIds(df) = {} THEN cleaned_df.rows = given.rows
         ELSE Len(cleaned_df.rows) = 1

\* '123 Market St' and '9 Oak Ave', some 50 km apart, are in no group and
\* both in the output
C10_FarApartKept ==
  /\ ScenarioB
  /\ Removed
  /\ properties[1]["address"] = Str(MarketSt)
  /\ properties[2]["address"] = Str(OakAve)
  /\ GroupIds(df) = {}
  /\ cleaned_df.rows = given.rows

\* two listings at one place whose addresses are less than 0.7 similar
ScenarioD ==
  /\ Len(given.rows) = 2
  /\ SamePlace(given.rows[1], given.rows[2])
  /\ IsStr(given.rows[1]["address"]) /\ IsStr(given.rows[2]["address"])
  /\ _calculate_address_similarity(given.rows[1]["address"], given.rows[2]["address"]) < 7000

\* C11: two listings within the coordinate threshold whose address similarity
\* is below 0.7 are not joined by the geospatial pass, are both left for the
\* fuzzy pass to compare, are not joined there either, and are both in the
\* output, unchanged.
C11_ScenarioD ==
  (pc \in {"address", "coordinate", "fuzzy", "found", "removed"} /\ ScenarioD) =>
    /\ GroupIds(df) = {}
    /\ \A k \in DOMAIN df.rows :
         ~df.rows[k]["is_duplicate"] /\ df.rows[k]["duplicate_confidence"] = 0
    /\ pc = "removed" => cleaned_df.rows = given.rows

\* '123 Market St' and '9 Oak Ave' at the same coordinates are two records
\* of the output
C11_NeighboursKept ==
  /\ pc = "removed"
  /\ ScenarioD
  /\ {given.rows[1]["address"], given.rows[2]["address"]} = {Str(MarketSt), Str(OakAve)}
  /\ Len(cleaned_df.rows) = 2

---------------------------------------------------------------------------
(* The passes of find_duplicates *)

\* the kinds of the groups of d
GroupKinds(d) == {g.kind : g \in GroupIds(d)}

\* C12: the passes run in the order exact key, geospatial, fuzzy, and a later
\* pass leaves the duplicate_group and the duplicate_confidence of every
\* record that an earlier pass put in a group as they were.
C12_EarlierGroupsUntouched ==
  [][/\ pc = "normalized" /\ pc' = "address" => GroupKinds(df') \subseteq {"addr"}
     /\ pc = "address" =>
          /\ pc' = "coordinate"
          /\ GroupKinds(df') \subseteq {"addr", "coord"}
     /\ pc = "coordinate" => pc' \in {"fuzzy", "found"}
     /\ pc \in {"address", "coordinate"} =>
          \A k \in DOMAIN df.rows :
            GroupsOf(df.rows[k]["duplicate_group"]) # {} =>
              /\ df'.rows[k]["duplicate_group"] = df.rows[k]["duplicate_group"]
              /\ df'.rows[k]["duplicate_confidence"] = df.rows[k]["duplicate_confidence"]
              /\ df'.rows[k]["is_duplicate"]]_vars

\* two records that the exact pass grouped and a third at the same place,
\* with a similar address and the same bedrooms, that no later pass joined
\* to them
C12_ExactPairLeftAlone ==
  /\ pc = "fuzzy"
  /\ Len(df.rows) = 3
  /\ KeyFields \subseteq df.cols
  /\ df.rows[1]["address"] = Str(MarketSt)
  /\ df.rows[2]["address"] = Str(MarketStLower)
  /\ df.rows[3]["address"] = Str(MarketSt125)
  /\ SamePlace(df.rows[1], df.rows[3])
  /\ SamePlace(df.rows[2], df.rows[3])
  /\ GroupKinds(df) = {"addr"}
  /\ Members(df, df.rows[1]["duplicate_group"]) = {0, 1}
  /\ df.rows[1]["duplicate_confidence"] = 10000
  /\ df.rows[3]["duplicate_group"] = NoneV

\* the labels of the rows of d that are in no group
Ungrouped(d) ==
  {d.rows[k]["index"] : k \in {k \in DOMAIN d.rows : GroupsOf(d.rows[k]["duplicate_group"]) = {}}}

\* C13: every record that no pass put in a group is in the output of
\* remove_duplicates, with every data field as it was in the input.
C13_UngroupedUnchanged ==
  pc = "removed" =>
    \A i \in Ungrouped(df) :
      /\ i \in Labels(cleaned_df)
      /\ RowAt(cleaned_df, i) = RowAt(given, i)

\* a record in no group is in the output beside the one record that a group
\* of two left there
C13_BystanderKept ==
  /\ pc = "removed"
  /\ Len(given.rows) = 3
  /\ \E g \in GroupIds(df) :
       /\ Cardinality(Members(df, g)) = 2
       /\ Cardinality(Members(df, g) \cap Labels(cleaned_df)) = 1
  /\ \E i \in Ungrouped(df) :
       /\ i \in Labels(cleaned_df)
       /\ RowAt(cleaned_df, i) = RowAt(given, i)

---------------------------------------------------------------------------
(* Failures *)

\* C14: on an empty batch, and on a batch in which a comparison fails,
\* remove_duplicates raises nothing and returns an empty batch.
C14_NeverRaises ==
  /\ pc # "KeyError"
  /\ (pc = "removed" /\ (Empty(given) \/ raised)) => Empty(cleaned_df)

\* remove_duplicates on the empty DataFrame has raised KeyError
C14_KeyErrorOnEmpty ==
  /\ pc = "KeyError"
  /\ properties = << >>
  /\ Empty(given)
  /\ "is_duplicate" \notin df.cols

\* what find_duplicates returns for d; batches of three records and fewer
\* have one duplicated key at most, and its hash does not matter
FoundIn(d) ==
  LET found == _find_fuzzy_duplicates(
                 _find_coordinate_duplicates(
                   _find_address_duplicates(AddDuplicateColumns(d),
                                            [key \in DuplicatedKeys(d) |-> 0])))
  IN IF found.raised THEN found.d ELSE _resolve_duplicates(found.d)

\* the rows of d whose address the matcher can compare: a str, or None
Comparable(rows) == SelectSeq(rows, LAMBDA r : ~(Get(r, "address", NoneV) = NaN))

\* C15: when the comparison of one pair fails in find_duplicates, the other
\* records are matched and output as they are for the batch without the
\* record that made it fail.
C15_PairIsolation ==
  (pc = "removed" /\ Comparable(given.rows) # << >>) =>
    Comparable(cleaned_df.rows)
      = DropDuplicateRowsAndColumns(
          FoundIn([given EXCEPT !.rows = Comparable(given.rows)])).rows

\* the first record has no address; its comparison raised, and the two other
\* records, which are matched when they are alone, were never compared
C15_OthersNeverCompared ==
  /\ pc = "removed"
  /\ raised
  /\ Len(given.rows) = 3
  /\ given.rows[1]["address"] = NaN
  /\ given.rows[2]["address"] = Str(MarketSt)
  /\ given.rows[3]["address"] = Str(MarketSt125)
  /\ GroupIds(df) = {}
  /\ Len(cleaned_df.rows) = 3
  /\ Len(DropDuplicateRowsAndColumns(
           FoundIn([given EXCEPT !.rows = Comparable(given.rows)])).rows) = 1

---------------------------------------------------------------------------
(* The fields normalize_properties_batch validates *)

\* the raw record the row of a normalized DataFrame came from
RecordOf(row) == properties[row["index"] + 1]

\* the row has the field of its record if the number is within lo..hi, and
\* has it absent if not
KeptWithin(row, field, lo, hi) ==
  field \in DOMAIN row =>
    LET n == to_numeric(Get(RecordOf(row), field, NaN))
    IN IF IsNum(n) /\ lo <= n.n /\ n.n <= hi
       THEN row[field] = n
       ELSE isna(row[field])

\* the year of the code's limit, and the year after it
RunYears == {2025, 2026}

\* C16: after normalize_properties_batch bedrooms, bathrooms, square_feet and
\* year_built are absent or within their bounds, year_built within 1800 and
\* the current year, whichever year that is; a value outside is absent and a
\* value inside is kept; lot_size is a number or absent.
C16_NumericBounds ==
  pc = "normalized" =>
    \A current_year \in RunYears : \A k \in DOMAIN df.rows :
      /\ KeptWithin(df.rows[k], "bedrooms", 0, 20)
      /\ KeptWithin(df.rows[k], "bathrooms", 0, 20)
      /\ KeptWithin(df.rows[k], "square_feet", 100, 50000)
      /\ KeptWithin(df.rows[k], "year_built", 1800, current_year)
      /\ "lot_size" \in DOMAIN df.rows[k] =>
           isna(df.rows[k]["lot_size"]) \/ IsNum(df.rows[k]["lot_size"])

\* a listing built in 2026 has no year_built after the normalization
C16_NewBuildDiscarded ==
  /\ pc = "normalized"
  /\ Len(properties) = 1
  /\ Get(properties[1], "year_built", NaN) = Num(2026)
  /\ Len(df.rows) = 1
  /\ df.rows[1]["year_built"] = NoneV

\* C17: after normalize_properties_batch the latitude of every record is
\* absent or within 24..71 and its longitude absent or within -180..-66, each
\* kept or made absent whatever the other is, also in a batch that has one of
\* the two fields alone.
C17_CoordinatesIndependent ==
  pc = "normalized" =>
    \A k \in DOMAIN df.rows :
      /\ KeptWithin(df.rows[k], "latitude", 2400000, 7100000)
      /\ KeptWithin(df.rows[k], "longitude", -18000000, -6600000)

\* a batch without longitudes keeps a latitude above 71
C17_LatitudeAloneKept ==
  /\ pc = "normalized"
  /\ Len(properties) = 1
  /\ "latitude" \in df.cols
  /\ "longitude" \notin df.cols
  /\ Len(df.rows) = 1
  /\ df.rows[1]["latitude"] = Num(7100001)

\* a str of two upper-case letters
TwoLetterCode(v) ==
  IsStr(v) /\ Len(v.s) = 2 /\ \A k \in DOMAIN v.s : IsUpperChar(v.s[k])

\* C18: the state of every record in the output of normalize_properties_batch
\* is a code of two upper-case letters, and _normalize_state gives such a code
\* for every state that is not absent or empty.
C18_TwoLetterState ==
  pc = "normalized" =>
    /\ \A k \in DOMAIN df.rows :
         "state" \in DOMAIN df.rows[k] => TwoLetterCode(df.rows[k]["state"])
    /\ \A k \in DOMAIN properties :
         "state" \in DOMAIN properties[k] =>
           IF isna(properties[k]["state"]) \/ IsEmptyStr(properties[k]["state"])
           THEN _normalize_state(properties[k]["state"]) = NoneV
           ELSE TwoLetterCode(_normalize_state(properties[k]["state"]))

\* the state 'D.C.' is 'D.' in the output
C18_DottedAbbreviation ==
  /\ pc = "normalized"
  /\ Len(properties) = 1
  /\ properties[1]["state"] = Str(<<"D", ".", "C", ".">>)
  /\ Len(df.rows) = 1
  /\ df.rows[1]["state"] = Str(<<"D", ".">>)

\* C19: in every state of find_duplicates the duplicate_confidence of a
\* record is within 0 and 1: 0 for a record in no group, 1.0 for a record of
\* a group of the exact pass, 0.9 at most in a group of the geospatial pass
\* and 1.0 at most in a group of the fuzzy pass.
C19_ConfidenceBounds ==
  (pc \in {"address", "coordinate", "fuzzy", "found", "removed"}
     /\ "duplicate_confidence" \in df.cols) =>
    \A k \in DOMAIN df.rows :
      LET confidence == df.rows[k]["duplicate_confidence"]
          group == df.rows[k]["duplicate_group"]
      IN /\ 0 <= confidence /\ confidence <= 10000
         /\ GroupsOf(group) = {} => confidence = 0
         /\ GroupsOf(group) # {} =>
              /\ confidence > 0
              /\ group.kind = "addr" => confidence = 10000
              /\ group.kind = "coord" => confidence <= 9000

\* '123 Market St' and '125 Market St' at one place are in a group of the
\* geospatial pass with confidence 0.869, below the cap of 0.9
C19_NeighboursBelowCap ==
  /\ pc = "fuzzy"
  /\ Len(df.rows) = 2
  /\ df.rows[1]["duplicate_group"] = GroupId("coord", 0, 1)
  /\ df.rows[1]["duplicate_confidence"] = 8692
  /\ df.rows[2]["duplicate_confidence"] = 8692

---------------------------------------------------------------------------
(* Invocations side by side *)

\* what the engine returns for a batch when it runs alone
Alone(props) ==
  LET d == normalize_properties_batch(props)
  IN IF Empty(d) THEN EmptyDataFrame ELSE DropDuplicateRowsAndColumns(FoundIn(d))

\* C20: of two invocations that run side by side on the same instances, in
\* any interleaving of their steps, each returns what it returns alone.
C20_CallsIndependent ==
  \A c \in DOMAIN calls :
    calls[c].pc \in {"removed", "returned"} => calls[c].cleaned_df = Alone(calls[c].properties)

\* the first invocation has returned one record for its two listings while
\* the second, with one listing, is between two passes
C20_ReturnedBesideRunning ==
  /\ DOMAIN calls = Calls
  /\ calls[1].pc = "removed"
  /\ Len(calls[1].properties) = 2
  /\ Len(calls[1].cleaned_df.rows) = 1
  /\ calls[2].pc = "coordinate"
  /\ Len(calls[2].properties) = 1
  /\ Len(calls[2].df.rows) = 1


---------------------------------------------------------------------------
(* Record selection and field merge *)

\* the score of section 4.3 for a row: 10 x duplicate_confidence, one for
\* each important field populated, and five when updated_at is populated
ScoreWhenPopulated(row) ==
  Get(row, "duplicate_confidence", 0) * 10
  + 10000 * FieldCount(row)
  + (IF Populated(Get(row, "updated_at", NoneV)) THEN 50000 ELSE 0)

\* the same, with the five given when updated_at is not null, the empty string
\* included
ScoreWhenNotNull(row) ==
  Get(row, "duplicate_confidence", 0) * 10
  + 10000 * FieldCount(row)
  + (IF notna(Get(row, "updated_at", NoneV)) THEN 50000 ELSE 0)

\* the member of group g of d with the highest score, the first of them in
\* batch order; score[i] is the score of the row with label i
HighestFirst(d, g, score) ==
  CHOOSE i \in Members(d, g) :
    \A j \in Members(d, g) : score[i] > score[j] \/ (score[i] = score[j] /\ i <= j)

\* the members of group g of d that after is no duplicate
KeptOf(d, after, g) == {i \in Members(d, g) : ~RowAt(after, i)["is_duplicate"]}

OthersWith(d, g, i, field) ==
  {j \in Members(d, g) \ {i} : Populated(RowAt(d, j)[field])}

\* what the canonical record i of group g of d is to hold in a field when the
\* group is merged: its own value when it is populated, and else that of the
\* first of the other members that has the field populated, if there is one
MergedValue(d, g, i, field) ==
  IF Populated(RowAt(d, i)[field]) \/ OthersWith(d, g, i, field) = {}
  THEN RowAt(d, i)[field]
  ELSE RowAt(d, CHOOSE j \in OthersWith(d, g, i, field) :
                  \A m \in OthersWith(d, g, i, field) : j <= m)[field]

\* C22: when _resolve_duplicates merges a group, a field populated on the
\* canonical record keeps its value, a field not populated on it receives the
\* first populated value of the other members in group order, and
\* duplicate_group and duplicate_confidence stay those of the canonical record
\* (is_duplicate is set to False, not copied).
C22_FieldMerge ==
  [][pc = "fuzzy" /\ pc' = "found" =>
       \A g \in GroupIds(df) :
         Cardinality(Members(df, g)) >= 2 =>
           \A i \in KeptOf(df, df', g) :
             /\ \A field \in df.cols \ MetadataColumns :
                  RowAt(df', i)[field] = MergedValue(df, g, i, field)
             /\ RowAt(df', i)["duplicate_group"] = RowAt(df, i)["duplicate_group"]
             /\ RowAt(df', i)["duplicate_confidence"] = RowAt(df, i)["duplicate_confidence"]
             /\ RowAt(df', i)["is_duplicate"] = FALSE]_vars

\* three records with one composite key, not normalized: the second, the only one with
\* updated_at, is canonical and has no bedrooms; it receives the three
\* bedrooms of the first, not the two of the third, and keeps its price
C22_FirstDonorWins ==
  /\ properties = <<ResolveListing(<<Str(MarketSt), Num(3), Absent>>, 1),
                    ResolveListing(<<Str(MarketSt), Absent, Str(Timestamp)>>, 2),
                    ResolveListing(<<Str(MarketSt), Num(2), Absent>>, 3)>>
  /\ pc = "found" /\ ~raised /\ ~normalized
  /\ ~RowAt(df, 1)["is_duplicate"]
  /\ RowAt(df, 1)["bedrooms"] = Num(3)
  /\ RowAt(df, 1)["current_price"] = PriceOf(2)

---------------------------------------------------------------------------
(* The join conditions of the geospatial and the fuzzy pass *)

\* the row has a latitude and a longitude
HasCoordinates(row) ==
  notna(Get(row, "latitude", NaN)) /\ notna(Get(row, "longitude", NaN))

\* the distance of the rows with labels i and j of d, and the similarity of
\* their addresses
DistanceOf(d, i, j) ==
  geodesic(<<RowAt(d, i)["latitude"], RowAt(d, i)["longitude"]>>,
           <<RowAt(d, j)["latitude"], RowAt(d, j)["longitude"]>>)

AddressSimilarityOf(d, i, j) ==
  _calculate_address_similarity(Get(RowAt(d, i), "address", Str(<< >>)),
                                Get(RowAt(d, j), "address", Str(<< >>)))

\* the rows with labels i < j, unclaimed in d before the geospatial pass, are
\* both unclaimed still when the pass compares them; after is d after the
\* pass.  Row i was not joined to an earlier row, nor to a row before j; row j
\* was not joined to a row before i.
UnclaimedWhenCompared(d, after, i, j) ==
  /\ ~RowAt(d, i)["is_duplicate"]
  /\ ~RowAt(d, j)["is_duplicate"]
  /\ \A k \in Labels(d) :
       /\ k < i => RowAt(after, i)["duplicate_group"] # GroupId("coord", k, i)
       /\ k < i => RowAt(after, j)["duplicate_group"] # GroupId("coord", k, j)
       /\ (i < k /\ k < j) => RowAt(after, k)["duplicate_group"] # GroupId("coord", i, k)

\* the condition of the geospatial pass for the rows with labels i and j
WithinReachAndAlike(d, i, j) ==
  /\ DistanceOf(d, i, j) # RAISES
  /\ DistanceOf(d, i, j) <= coordinate_threshold
  /\ AddressSimilarityOf(d, i, j) > 7000

\* C23: two records with coordinates that are both unclaimed when the
\* geospatial pass compares them are joined exactly when their distance is at
\* most coordinate_threshold and their address similarity is above 0.7, and
\* the confidence recorded for the match is min(0.9, 0.5 + 0.4 x similarity).
C23_GeospatialJoin ==
  [][pc = "address" /\ pc' = "coordinate" =>
       \A i, j \in Labels(df) :
         (/\ i < j
          /\ HasCoordinates(RowAt(df, i)) /\ HasCoordinates(RowAt(df, j))
          /\ UnclaimedWhenCompared(df, df', i, j))
         => /\ RowAt(df', j)["duplicate_group"] = GroupId("coord", i, j)
                 <=> WithinReachAndAlike(df, i, j)
            /\ WithinReachAndAlike(df, i, j) =>
                 /\ RowAt(df', j)["is_duplicate"]
                 /\ RowAt(df', i)["is_duplicate"]
                 /\ RowAt(df', j)["duplicate_confidence"]
                      = Min(9000, 5000 + (AddressSimilarityOf(df, i, j) * 4) \div 10)
                 /\ RowAt(df', i)["duplicate_confidence"]
                      >= Min(9000, 5000 + (AddressSimilarityOf(df, i, j) * 4) \div 10)]_vars

\* 123 and 125 Market St at one place: joined in coord_0_1 with the
\* confidence of their address similarity, below the cap
C23_NeighbouringNumbers ==
  /\ Len(properties) = 2
  /\ properties[1]["address"] = Str(MarketSt)
  /\ properties[2]["address"] = Str(MarketSt125)
  /\ pc = "coordinate"
  /\ HasCoordinates(RowAt(df, 0)) /\ HasCoordinates(RowAt(df, 1))
  /\ RowAt(df, 1)["duplicate_group"] = GroupId("coord", 0, 1)
  /\ RowAt(df, 1)["duplicate_confidence"] = 5000 + (AddressSimilarityOf(df, 0, 1) * 4) \div 10
  /\ RowAt(df, 1)["duplicate_confidence"] < 9000

\* the similarity of the cities of the rows with labels i and j of d
CitySimilarityOf(d, i, j) ==
  _calculate_string_similarity(Get(RowAt(d, i), "city", Str(<< >>)),
                               Get(RowAt(d, j), "city", Str(<< >>)))

\* 0.8 x address_similarity + 0.2 x city_similarity
CombinedTextScore(d, i, j) ==
  (AddressSimilarityOf(d, i, j) * 8 + CitySimilarityOf(d, i, j) * 2) \div 10

\* 0.7 x combined_text_score + 0.3 x characteristics_similarity
FinalConfidenceOf(d, i, j) ==
  (CombinedTextScore(d, i, j) * 7
     + _calculate_property_similarity(RowAt(d, i), RowAt(d, j)) * 3) \div 10

\* the condition of the fuzzy pass for the rows with labels i and j
AlikeInTextAndCharacteristics(d, i, j) ==
  /\ AddressSimilarityOf(d, i, j) # RAISES
  /\ CitySimilarityOf(d, i, j) # RAISES
  /\ CombinedTextScore(d, i, j) >= address_threshold
  /\ _calculate_property_similarity(RowAt(d, i), RowAt(d, j)) # RAISES
  /\ FinalConfidenceOf(d, i, j) >= 7500

\* the rows with labels i and j of d carry one group id
Joined(d, i, j) ==
  /\ RowAt(d, i)["duplicate_group"] # NoneV
  /\ RowAt(d, i)["duplicate_group"] = RowAt(d, j)["duplicate_group"]

\* C24: two records left unclaimed by passes 1 and 2 are joined by the fuzzy
\* pass exactly when 0.8 x address_similarity + 0.2 x city_similarity is at
\* least address_threshold and the final confidence 0.7 x combined + 0.3 x
\* characteristics is at least 0.75, and the confidence the pass records on
\* the two is that final confidence.
C24_FuzzyJoin ==
  [][pc = "coordinate" /\ pc' = "fuzzy" =>
       \A i, j \in Labels(df) :
         (i < j /\ ~RowAt(df, i)["is_duplicate"] /\ ~RowAt(df, j)["is_duplicate"])
         => /\ Joined(df', i, j) <=> AlikeInTextAndCharacteristics(df, i, j)
            /\ AlikeInTextAndCharacteristics(df, i, j) =>
                 /\ RowAt(df', i)["duplicate_confidence"] = FinalConfidenceOf(df, i, j)
                 /\ RowAt(df', j)["duplicate_confidence"] = FinalConfidenceOf(df, i, j)]_vars

\* three listings of one street without coordinates, all with two bedrooms:
\* every two of them meet the condition, the first is joined to the second
\* with confidence 1.0 and then to the third, and the pass leaves the first
\* and the second in different groups and the confidence of the first at 1.0,
\* above the final confidence of its match with the third
C24_FirstPairSeparated ==
  /\ properties = <<CityListing(<<Str(MarketSt), NoCoordinates, Num(2)>>, 1),
                    CityListing(<<Str(MarketStreet), NoCoordinates, Num(2)>>, 2),
                    CityListing(<<Str(MarketSt125), NoCoordinates, Num(2)>>, 3)>>
  /\ pc = "fuzzy"
  /\ AlikeInTextAndCharacteristics(df, 0, 1)
  /\ AlikeInTextAndCharacteristics(df, 0, 2)
  /\ ~Joined(df, 0, 1)
  /\ Joined(df, 1, 2)
  /\ RowAt(df, 0)["duplicate_group"] = GroupId("fuzzy", 0, 2)
  /\ RowAt(df, 0)["duplicate_confidence"] > FinalConfidenceOf(df, 0, 2)

\* C24 on the batches that leave the fuzzy pass two records: no record is
\* compared after it was joined, and the statement holds
C24_FuzzyJoinOfTwo ==
  [][(/\ pc = "coordinate" /\ pc' = "fuzzy"
      /\ Cardinality({i \in Labels(df) : ~RowAt(df, i)["is_duplicate"]}) = 2) =>
       \A i, j \in Labels(df) :
         (i < j /\ ~RowAt(df, i)["is_duplicate"] /\ ~RowAt(df, j)["is_duplicate"])
         => /\ Joined(df', i, j) <=> AlikeInTextAndCharacteristics(df, i, j)
            /\ AlikeInTextAndCharacteristics(df, i, j) =>
                 /\ RowAt(df', i)["duplicate_confidence"] = FinalConfidenceOf(df, i, j)
                 /\ RowAt(df', j)["duplicate_confidence"] = FinalConfidenceOf(df, i, j)]_vars

\* d has the three rows of a batch of three, none of them claimed by a pass
\* of the kinds given
ThreeUnclaimedBy(d, kinds) ==
  /\ Labels(d) = {0, 1, 2}
  /\ \A i \in Labels(d) :
       \A g \in GroupsOf(RowAt(d, i)["duplicate_group"]) : g.kind \notin kinds

\* C25: the groups of passes 2 and 3 are not transitive.  Of three records
\* that pass 1 left unclaimed and of which every two meet the condition of
\* the geospatial pass, that pass leaves the second in a group of its own,
\* though it matches the first and the third; of three records that passes 1
\* and 2 left unclaimed and of which every two meet the condition of the
\* fuzzy pass, that pass leaves the first in a group of its own.
C25_NotTransitive ==
  /\ (/\ pc = "coordinate"
      /\ ThreeUnclaimedBy(df, {"addr"})
      /\ \A i \in Labels(df) : HasCoordinates(RowAt(df, i))
      /\ \A i, j \in Labels(df) : i < j => WithinReachAndAlike(df, i, j))
     => /\ Joined(df, 0, 2)
        /\ ~Joined(df, 1, 0)
        /\ ~Joined(df, 1, 2)
  /\ (/\ pc = "fuzzy"
      /\ ThreeUnclaimedBy(df, {"addr", "coord"})
      /\ \A i, j \in Labels(df) : i < j => AlikeInTextAndCharacteristics(df, i, j))
     => /\ Joined(df, 1, 2)
        /\ ~Joined(df, 0, 1)
        /\ ~Joined(df, 0, 2)

\* three listings of one block at one place: the geospatial pass joins the
\* first to the second and then to the third; the second matches the first,
\* the first matches the third, and the second and the third end in
\* different groups
C25_SecondLeftBehind ==
  /\ properties = OneBlock
  /\ pc = "coordinate"
  /\ WithinReachAndAlike(df, 0, 1)
  /\ WithinReachAndAlike(df, 0, 2)
  /\ RowAt(df, 1)["duplicate_group"] = GroupId("coord", 0, 1)
  /\ RowAt(df, 2)["duplicate_group"] = GroupId("coord", 0, 2)

---------------------------------------------------------------------------
(* What remove_duplicates leaves out *)

\* the record with label i of d was absorbed: it is one of two members or
\* more of a group of d, another member of the group is in the output, and
\* that member has every field populated that the record has populated
Absorbed(d, output, i) ==
  \E g \in GroupsOf(RowAt(d, i)["duplicate_group"]) :
    /\ Cardinality(Members(d, g)) >= 2
    /\ \E c \in (Members(d, g) \ {i}) \cap Labels(output) :
         \A field \in d.cols \ MetadataColumns :
           Populated(RowAt(d, i)[field]) => Populated(RowAt(output, c)[field])

\* the record with label i of d ends alone in its group
AloneInGroup(d, i) ==
  \E g \in GroupsOf(RowAt(d, i)["duplicate_group"]) : Members(d, g) = {i}

\* C27: remove_duplicates leaves a record out of its output only if the
\* record is a non-canonical member of a group of two records or more whose
\* canonical record is in the output and was merged with the record's fields;
\* a record that ends alone in its group is never left out.
C27_DroppedOnlyIfAbsorbed ==
  pc = "removed" =>
    \A i \in Labels(df) \ Labels(cleaned_df) :
      Absorbed(df, cleaned_df, i) /\ ~AloneInGroup(df, i)

\* three listings of one street without coordinates: the fuzzy pass leaves
\* the first alone in fuzzy_0_2, and it is not in the output
C27_LoneRecordLeftOut ==
  /\ properties = <<CityListing(<<Str(MarketSt), NoCoordinates, Num(2)>>, 1),
                    CityListing(<<Str(MarketStreet), NoCoordinates, Num(2)>>, 2),
                    CityListing(<<Str(MarketSt125), NoCoordinates, Num(2)>>, 3)>>
  /\ pc = "removed"
  /\ Members(df, GroupId("fuzzy", 0, 2)) = {0}
  /\ 0 \notin Labels(cleaned_df)

\* C27 for the records that do not end alone in their group: each of them
\* that is left out was absorbed
C27_AbsorbedUnlessAlone ==
  (pc = "removed" /\ ~raised) =>
    \A i \in Labels(df) \ Labels(cleaned_df) :
      AloneInGroup(df, i) \/ Absorbed(df, cleaned_df, i)

---------------------------------------------------------------------------
(* The group ids of the exact key pass *)

\* C28: two records carry the same duplicate_group id of the exact key pass
\* only if their composite keys are equal, whatever the hash function gives.
C28_GroupsFollowKeys ==
  (pc \in {"address", "coordinate", "fuzzy"} /\ KeyFields \subseteq df.cols) =>
    \A i, j \in Labels(df) :
      (/\ RowAt(df, i)["duplicate_group"] = RowAt(df, j)["duplicate_group"]
       /\ \E g \in GroupsOf(RowAt(df, i)["duplicate_group"]) : g.kind = "addr")
      => AddressKey(RowAt(df, i)) = AddressKey(RowAt(df, j))

\* two records of 123 Market St and two of 9 Oak Ave, not normalized, whose
\* keys have the same hash(key) % 10000: the four carry one group id, are
\* resolved as one group, and one record is output
C28_TwoPropertiesOneRecord ==
  /\ Len(properties) = 4
  /\ properties[1]["address"] = Str(MarketSt) /\ properties[2]["address"] = Str(MarketSt)
  /\ properties[3]["address"] = Str(OakAve) /\ properties[4]["address"] = Str(OakAve)
  /\ pc = "removed" /\ ~normalized
  /\ RowAt(df, 0)["duplicate_group"] = RowAt(df, 2)["duplicate_group"]
  /\ AddressKey(RowAt(df, 0)) # AddressKey(RowAt(df, 2))
  /\ Len(cleaned_df.rows) = 1

---------------------------------------------------------------------------
(* Pairs with no characteristic in common *)

\* the fields _calculate_property_similarity compares
numeric_fields == {"bedrooms", "bathrooms", "square_feet", "year_built"}

\* the two raw records have no characteristic populated on both
NothingInCommon(a, b) ==
  \A field \in numeric_fields \cup {"property_type"} :
    ~(Populated(Get(a, field, NoneV)) /\ Populated(Get(b, field, NoneV)))

\* the same of two rows of the DataFrame, as the fuzzy pass reads them: a
\* number is there when it is not null, a property_type when it is truthy
NothingInCommonCells(a, b) ==
  /\ \A field \in numeric_fields :
       ~(notna(Get(a, field, NoneV)) /\ notna(Get(b, field, NoneV)))
  /\ Falsy(Get(a, "property_type", Str(<< >>))) \/ Falsy(Get(b, "property_type", Str(<< >>)))

\* the row was left to the fuzzy pass by the two passes before it
LeftToFuzzy(row) ==
  \/ row["duplicate_group"] = NoneV
  \/ row["duplicate_group"].t = "group" /\ row["duplicate_group"].kind = "fuzzy"

\* C29: two records with no characteristic populated on both, compared by
\* the fuzzy pass, are never joined by it, whatever their addresses and
\* cities: their characteristics similarity is 0 and their final confidence
\* at most 0.7.
C29_NothingInCommonNeverJoined ==
  (pc = "fuzzy" /\ ~raised) =>
    \A i, j \in Labels(df) :
      ( /\ i < j
        /\ LeftToFuzzy(RowAt(df, i)) /\ LeftToFuzzy(RowAt(df, j))
        /\ NothingInCommon(properties[i + 1], properties[j + 1]) )
      => /\ RowAt(df, j)["duplicate_group"] # GroupId("fuzzy", i, j)
         /\ _calculate_property_similarity(RowAt(df, i), RowAt(df, j)) = 0
         /\ FinalConfidenceOf(df, i, j) <= 7000

\* two listings of one property that give no bedrooms and a null
\* property_type: normalized, both read 'none', the characteristics
\* similarity is 1.0 and the fuzzy pass joins them
C29_MissingTypesMatch ==
  /\ properties = <<TraitListing(<<Str(MarketSt), Absent, NoneV>>, 1),
                    TraitListing(<<Str(MarketStreet), Absent, NoneV>>, 2)>>
  /\ pc = "fuzzy" /\ normalized
  /\ RowAt(df, 0)["property_type"] = Str(<<"n","o","n","e">>)
  /\ _calculate_property_similarity(RowAt(df, 0), RowAt(df, 1)) = 10000
  /\ RowAt(df, 1)["duplicate_group"] = GroupId("fuzzy", 0, 1)

\* C29 of the cells the fuzzy pass reads: two rows with no number not null on
\* both and no truthy property_type on both are never joined by it
C29_NothingInCommonCellsNeverJoined ==
  pc = "fuzzy" =>
    \A i, j \in Labels(df) :
      (i < j /\ NothingInCommonCells(RowAt(df, i), RowAt(df, j)))
      => /\ RowAt(df, j)["duplicate_group"] # GroupId("fuzzy", i, j)
         /\ RowAt(df, i)["duplicate_group"] # GroupId("fuzzy", i, j)
         /\ _calculate_property_similarity(RowAt(df, i), RowAt(df, j)) = 0
         /\ FinalConfidenceOf(df, i, j) <= 7000

---------------------------------------------------------------------------
(* The monthly quota *)

\* C26: in every interleaving of get_properties calls the used count recorded
\* for an api never exceeds the monthly limit of that api.
C26_WithinMonthlyLimit ==
  \A api_name \in DOMAIN quotas : quotas[api_name].used <= quotas[api_name].limit

\* rentcast had one request left; two calls passed can_make_request before
\* either was recorded, both were answered and both are recorded: 51 of 50
C26_BothPassedTheCheck ==
  /\ "rentcast" \in DOMAIN quotas
  /\ quotas["rentcast"].limit = 50
  /\ quotas["rentcast"].used = 51
  /\ month = 0
  /\ \A t \in DOMAIN requests : requests[t].pc = "idle" /\ requests[t].left = MaxRequests - 1
====
